---- MODULE Spec2Model ----
(***************************************************************************)
(* Model of the transaction lifecycle engine of pantos.common.blockchains: *)
(* the resubmission engine (base.py, resubmit_transaction), the submission *)
(* engine of the EVM reference adapter (ethereum.py, submit_transaction),  *)
(* the lifecycle task (tasks.py, _transaction_resubmission_task), the      *)
(* multi-node dispatcher (base.py, NodeConnections.Wrapper) and the node   *)
(* pool construction (base.py, create_node_connections).                   *)
(*                                                                         *)
(* Modelling conventions                                                   *)
(*  - typing.Optional[int] is a set: {} is None, {v} is the value v.       *)
(*  - adaptable_fee_increase_factor (a float in the source) is an exact    *)
(*    rational counted in thousandths: 1101 is 1.101.                      *)
(*  - a transaction id (the hash of the signed transaction) is the record  *)
(*    of the signed fields: equal transactions have equal ids.             *)
(*  - an error is a record [kind |-> "error", error |-> class name].       *)
(***************************************************************************)
EXTENDS Integers, Sequences, FiniteSets, TLC

\* ------------------------------------------------------------------ bounds
MaxMinFee == 3
MaxCeiling == 5
MaxUnderpriced == 3
MaxObservedFee == 1
MaxNodes == 3
MaxHandles == 3
MaxPrimaries == 2
MaxFallbacks == 2
MaxTaskFee == 2
MaxTaskUnderpriced == 1
MaxSubmitNodes == 2
MaxStartFee == 1
MaxStartUnderpriced == 1
MaxMemberResult == 2
MaxLoads == 3
MaxInitializations == 3
MaxHealthUrls == 2
MaxBlockNumber == 2
MaxRequiredConfirmations == 2
MaxReadNodes == 2
MaxConfirmations == 2

\* -------------------------------------------------------- program constants
\* the increase factor 1.101, in thousandths
MIN_ADAPTABLE_FEE_INCREASE_FACTOR == 1101
MinGas == 21000
MAX_TRANSACTION_RESUBMISSION_TASK_RETRIES == 1000
MAX_DEPENDENT_TRANSACTION_CHECKS_TASK_RETRIES == 100
\* the base fee per gas int(1e8) of the submission scenarios
BASE_FEE_PER_GAS == 100000000
\* TransactionStatus
UNINCLUDED == 0
UNCONFIRMED == 1
CONFIRMED == 2
REVERTED == 3

\* ----------------------------------------------------------------- helpers
None == {}
Some(v) == {v}
IsSet(o) == o # {}
Get(o) == CHOOSE v \in o : TRUE

Max2(a, b) == IF a >= b THEN a ELSE b
Min2(a, b) == IF a <= b THEN a ELSE b

\* the values of a list
Range(list) == {list[i] : i \in DOMAIN list}

\* math.ceil(n / d) for d > 0
CeilDiv(n, d) == IF n >= 0 THEN (n + d - 1) \div d ELSE -((-n) \div d)

GenericError == "BlockchainUtilitiesError"
MaxTotalFeePerGasExceededError == "MaxTotalFeePerGasExceededError"
TransactionNonceTooLowError == "TransactionNonceTooLowError"
TransactionUnderpricedError == "TransactionUnderpricedError"
ResultsNotMatchingError == "ResultsNotMatchingError"

Error(class) == [kind |-> "error", error |-> class]
NoResult == [kind |-> "none"]

VARIABLES
    utilities,      \* the adapter: [type2, has_key]
    rs_pc,          \* resubmit_transaction: "idle", "loop", "returned", "raised"
    rs_input,       \* the request resubmit_transaction was called with
    rs_request,     \* the local variable request of resubmit_transaction
    rs_calls,       \* the requests handed to submit_transaction, in order
    rs_answers,     \* what submit_transaction returned or raised, in order
    rs_result,      \* the response returned or the error raised
    dp_pool,        \* NodeConnections.__node_connections: the nodes, in order
    dp_values,      \* what each node answers: the datum behind its results
    dp_wrappers,    \* the Wrapper objects created so far
    dp_handles,     \* the references the caller holds: [steps, wrapper, linear]
    dp_last,        \* the outcome of the latest dispatcher operation
    pl_primary,     \* BlockchainUtilities._blockchain_node_urls
    pl_fallback,    \* BlockchainUtilities._fallback_blockchain_node_urls
    pl_pc,          \* create_node_connections: "idle", "running", "returned",
                    \* "raised"
    pl_fallback_nodes,  \* the local list fallback_nodes
    pl_connections, \* NodeConnections.__node_connections being filled
    pl_log,         \* per primary handled: the attempts made, the
                    \* answers of the nodes and the list fallback_nodes
                    \* before and after
    pl_error,       \* the error raised
    tk_config,      \* average_block_time, required_transaction_confirmations
    tk_state,       \* the Celery state of the lifecycle task: "NONE" (no
                    \* task), "PENDING", "RETRY", "SUCCESS", "FAILURE"
    tk_retries,     \* self.request.retries
    tk_args,        \* the arguments of the next activation
    tk_countdown,   \* the countdown of the next activation
    tk_result,      \* the value returned or the exception the task failed with
    tk_created,     \* the arguments the task was created with
    tk_read,        \* the latest activation: its number and what
                    \* read_transaction_status gave
    tk_known,       \* the transaction id of the latest accepted submission
    tk_id,          \* the internal transaction id the task is registered
                    \* under
    tk_poll,        \* the latest get_transaction_submission_status since the
                    \* latest activation: the id asked for and the response
    sm_pc,          \* submit_transaction: "idle", "returned", "raised"
    sm_request,     \* the request of the call
    sm_env,         \* what the nodes answer during the call
    sm_effects,     \* what the call has done to the nodes and the key, in
                    \* order
    sm_sent,        \* the parameters of the transaction handed to the node
    sm_result,      \* the response returned or the error raised
    st_pc,          \* start_transaction_submission: "idle", "returned",
                    \* "raised"
    st_request,     \* the request of the call
    st_effects,     \* the engines called and the tasks handed to Celery, in
                    \* order
    st_tasks,       \* the tasks Celery has registered
    st_result,      \* the internal transaction id returned or the error
                    \* raised
    ab_resources,   \* the contract ABI files of the package: the pairs of
                    \* contract ABI and version there is a file for
    ab_loaded,      \* __loaded_contract_abis of the adapter
    ab_log,         \* the calls of load_contract_abi, in order
    fc_utilities,   \* _blockchain_utilities of the factory
    fc_log,         \* the calls of initialize_blockchain_utilities, in
                    \* order
    fc_last,        \* the latest get_blockchain_utilities and what it gave
    hl_nodes,       \* _blockchain_nodes of the health module
    hl_pc,          \* check_blockchain_nodes_health: "idle", "running",
                    \* "returned", "raised"
    hl_pending,     \* the chains whose probe has not completed
    hl_health,      \* nodes_health: the entries made, in order
    hl_result,      \* the dictionary returned or the error raised
    rd_pc,          \* read_transaction_status: "idle", "returned", "raised"
    rd_env,         \* what the nodes answer during the call
    rd_result,      \* the status returned or the error raised
    dt_state,       \* the dependent task: "NONE", "PENDING", "RETRY",
                    \* "SUCCESS", "FAILURE"
    dt_retries,     \* request.retries of the dependent task
    dt_args,        \* the arguments of the dependent task
    dt_countdown,   \* the delay of its next activation
    dt_result,      \* what it returned, or the error it failed with
    dt_read,        \* its latest activation: what it read and did
    dt_started,     \* the calls of start_transaction_submission it made,
                    \* in order
    ch_submitted,   \* the submissions of one lifecycle the nodes accepted,
                    \* in order: [request, transaction_id]
    ch_attempts,    \* the requests handed to submit_transaction during the
                    \* lifecycle
    ch_block        \* the transaction of the account's nonce the chain has
                    \* included: None, or [transaction_id, status,
                    \* confirmed]

rs_vars == <<rs_pc, rs_input, rs_request, rs_calls, rs_answers, rs_result>>
dp_vars == <<dp_pool, dp_values, dp_wrappers, dp_handles, dp_last>>
pl_vars == <<pl_primary, pl_fallback, pl_pc, pl_fallback_nodes,
             pl_connections, pl_log, pl_error>>
tk_vars == <<tk_config, tk_state, tk_retries, tk_args, tk_countdown,
             tk_result, tk_created, tk_read, tk_known, tk_id, tk_poll>>
sm_vars == <<sm_pc, sm_request, sm_env, sm_effects, sm_sent, sm_result>>
st_vars == <<st_pc, st_request, st_effects, st_tasks, st_result>>
ab_vars == <<ab_resources, ab_loaded, ab_log>>
fc_vars == <<fc_utilities, fc_log, fc_last>>
hl_vars == <<hl_nodes, hl_pc, hl_pending, hl_health, hl_result>>
rd_vars == <<rd_pc, rd_env, rd_result>>
dt_vars == <<dt_state, dt_retries, dt_args, dt_countdown, dt_result, dt_read,
             dt_started>>
ch_vars == <<ch_submitted, ch_attempts, ch_block>>
more_vars == <<rd_vars, dt_vars, ch_vars>>
lib_vars == <<ab_vars, fc_vars, hl_vars, more_vars>>
vars == <<utilities, rs_vars, dp_vars, pl_vars, tk_vars, sm_vars, st_vars,
          lib_vars>>

\* ------------------------------------------------- submission engine (EVM)
NonceTooLowMessages == {"nonce too low", "invalid nonce", "ERR_INCORRECT_NONCE"}
UnderpricedMessage == "transaction underpriced"
Markers == NonceTooLowMessages \cup {UnderpricedMessage}

\* what eth.send_raw_transaction answers: a hash, a ValueError whose message
\* contains the markers msg, an exception of another type whose message
\* contains the markers msg, or a mismatch of the nodes
SendOutcomes ==
    {[kind |-> "accepted", msg |-> {}]}
    \cup {[kind |-> "ValueError", msg |-> m] : m \in SUBSET Markers}
    \cup {[kind |-> "Exception", msg |-> m] : m \in SUBSET Markers}
    \cup {[kind |-> "ResultsNotMatching", msg |-> {}]}

\* the environment of one submit_transaction call: the minimum over the pool
\* of baseFeePerGas (type 2) or gas_price (legacy), and the node's answer
SubmitEnvs == [observed : 0..MaxObservedFee, send : SendOutcomes]

\* a check that lets a negative nonce pass
check_transaction_submission_request_without_nonce(request) ==
    IF IsSet(request.gas) /\ Get(request.gas) < MinGas THEN GenericError
    ELSE IF request.min_adaptable_fee_per_gas < 0 THEN GenericError
    ELSE IF IsSet(request.max_total_fee_per_gas)
            /\ request.min_adaptable_fee_per_gas
               > Get(request.max_total_fee_per_gas)
         THEN MaxTotalFeePerGasExceededError
    ELSE IF IsSet(request.amount) /\ Get(request.amount) < 0 THEN GenericError
    ELSE "ok"

check_transaction_submission_request(request) ==
    IF IsSet(request.gas) /\ Get(request.gas) < MinGas THEN GenericError
    ELSE IF request.min_adaptable_fee_per_gas < 0 THEN GenericError
    ELSE IF IsSet(request.max_total_fee_per_gas)
            /\ request.min_adaptable_fee_per_gas
               > Get(request.max_total_fee_per_gas)
         THEN MaxTotalFeePerGasExceededError
    ELSE IF IsSet(request.amount) /\ Get(request.amount) < 0 THEN GenericError
    ELSE IF request.nonce < 0 THEN GenericError
    ELSE "ok"

\* parameters with one base fee instead of two in maxFeePerGas
create_transaction_parameters_single_base(request, observed) ==
    IF utilities.type2
    THEN LET max_priority_fee_per_gas == request.min_adaptable_fee_per_gas
             unclamped == observed + max_priority_fee_per_gas
             max_fee_per_gas ==
                 IF IsSet(request.max_total_fee_per_gas)
                    /\ Get(request.max_total_fee_per_gas) < unclamped
                 THEN Get(request.max_total_fee_per_gas) ELSE unclamped
         IN  [type2 |-> TRUE, nonce |-> request.nonce, gas |-> request.gas,
              value |-> request.amount,
              total_fee_per_gas |-> max_fee_per_gas,
              priority_fee_per_gas |-> Some(max_priority_fee_per_gas),
              adaptable_fee_per_gas |-> max_priority_fee_per_gas]
    ELSE LET unclamped == Max2(observed, request.min_adaptable_fee_per_gas)
             gas_price ==
                 IF IsSet(request.max_total_fee_per_gas)
                    /\ Get(request.max_total_fee_per_gas) < unclamped
                 THEN Get(request.max_total_fee_per_gas) ELSE unclamped
         IN  [type2 |-> FALSE, nonce |-> request.nonce, gas |-> request.gas,
              value |-> request.amount,
              total_fee_per_gas |-> gas_price,
              priority_fee_per_gas |-> None,
              adaptable_fee_per_gas |-> gas_price]

\* parameters that ignore the ceiling
create_transaction_parameters_unclamped(request, observed) ==
    IF utilities.type2
    THEN LET max_priority_fee_per_gas == request.min_adaptable_fee_per_gas
             max_fee_per_gas == 2 * observed + max_priority_fee_per_gas
         IN  [type2 |-> TRUE, nonce |-> request.nonce, gas |-> request.gas,
              value |-> request.amount,
              total_fee_per_gas |-> max_fee_per_gas,
              priority_fee_per_gas |-> Some(max_priority_fee_per_gas),
              adaptable_fee_per_gas |-> max_priority_fee_per_gas]
    ELSE LET gas_price == Max2(observed, request.min_adaptable_fee_per_gas)
         IN  [type2 |-> FALSE, nonce |-> request.nonce, gas |-> request.gas,
              value |-> request.amount,
              total_fee_per_gas |-> gas_price,
              priority_fee_per_gas |-> None,
              adaptable_fee_per_gas |-> gas_price]

\* parameters clamped to the min adaptable fee instead of the ceiling
create_transaction_parameters_clamped_to_tip(request, observed) ==
    IF utilities.type2
    THEN LET max_priority_fee_per_gas == request.min_adaptable_fee_per_gas
             unclamped == 2 * observed + max_priority_fee_per_gas
             max_fee_per_gas ==
                 IF IsSet(request.max_total_fee_per_gas)
                    /\ Get(request.max_total_fee_per_gas) < unclamped
                 THEN max_priority_fee_per_gas ELSE unclamped
         IN  [type2 |-> TRUE, nonce |-> request.nonce, gas |-> request.gas,
              value |-> request.amount,
              total_fee_per_gas |-> max_fee_per_gas,
              priority_fee_per_gas |-> Some(max_priority_fee_per_gas),
              adaptable_fee_per_gas |-> max_priority_fee_per_gas]
    ELSE LET unclamped == Max2(observed, request.min_adaptable_fee_per_gas)
             gas_price ==
                 IF IsSet(request.max_total_fee_per_gas)
                    /\ Get(request.max_total_fee_per_gas) < unclamped
                 THEN request.min_adaptable_fee_per_gas ELSE unclamped
         IN  [type2 |-> FALSE, nonce |-> request.nonce, gas |-> request.gas,
              value |-> request.amount,
              total_fee_per_gas |-> gas_price,
              priority_fee_per_gas |-> None,
              adaptable_fee_per_gas |-> gas_price]

\* the fee fields of the transaction and the adaptable fee per gas
create_transaction_parameters(request, observed) ==
    IF utilities.type2
    THEN LET max_priority_fee_per_gas == request.min_adaptable_fee_per_gas
             unclamped == 2 * observed + max_priority_fee_per_gas
             max_fee_per_gas ==
                 IF IsSet(request.max_total_fee_per_gas)
                    /\ Get(request.max_total_fee_per_gas) < unclamped
                 THEN Get(request.max_total_fee_per_gas) ELSE unclamped
         IN  [type2 |-> TRUE, nonce |-> request.nonce, gas |-> request.gas,
              value |-> request.amount,
              total_fee_per_gas |-> max_fee_per_gas,
              priority_fee_per_gas |-> Some(max_priority_fee_per_gas),
              adaptable_fee_per_gas |-> max_priority_fee_per_gas]
    ELSE LET unclamped == Max2(observed, request.min_adaptable_fee_per_gas)
             gas_price ==
                 IF IsSet(request.max_total_fee_per_gas)
                    /\ Get(request.max_total_fee_per_gas) < unclamped
                 THEN Get(request.max_total_fee_per_gas) ELSE unclamped
         IN  [type2 |-> FALSE, nonce |-> request.nonce, gas |-> request.gas,
              value |-> request.amount,
              total_fee_per_gas |-> gas_price,
              priority_fee_per_gas |-> None,
              adaptable_fee_per_gas |-> gas_price]

\* a classification that looks for the underpriced marker first
send_raw_transaction_error_underpriced_first(send) ==
    IF send.kind = "ValueError"
    THEN IF UnderpricedMessage \in send.msg
         THEN TransactionUnderpricedError
         ELSE IF send.msg \cap NonceTooLowMessages # {}
              THEN TransactionNonceTooLowError
              ELSE GenericError
    ELSE IF send.kind = "ResultsNotMatching" THEN ResultsNotMatchingError
    ELSE GenericError

\* the error __send_raw_transaction and submit_transaction make of an answer
send_raw_transaction_error(send) ==
    IF send.kind = "ValueError"
    THEN IF send.msg \cap NonceTooLowMessages # {}
         THEN TransactionNonceTooLowError
         ELSE IF UnderpricedMessage \in send.msg
              THEN TransactionUnderpricedError
              ELSE GenericError
    ELSE IF send.kind = "ResultsNotMatching" THEN ResultsNotMatchingError
    ELSE GenericError

\* the hash of the signed transaction: its signed fields
transaction_hash(parameters) ==
    [type2 |-> parameters.type2, nonce |-> parameters.nonce,
     gas |-> parameters.gas, value |-> parameters.value,
     total_fee_per_gas |-> parameters.total_fee_per_gas,
     priority_fee_per_gas |-> parameters.priority_fee_per_gas]

\* a submission that raises where the ceiling is below the fee of the type-2
\* transaction instead of clamping the fee
submit_transaction_refusing_the_clamp(request, env) ==
    IF ~utilities.has_key THEN Error(GenericError)
    ELSE LET checked == check_transaction_submission_request(request) IN
         IF checked # "ok" THEN Error(checked)
         ELSE LET parameters ==
                      create_transaction_parameters(request, env.observed)
              IN  IF /\ utilities.type2
                     /\ IsSet(request.max_total_fee_per_gas)
                     /\ Get(request.max_total_fee_per_gas)
                        < 2 * env.observed + request.min_adaptable_fee_per_gas
                  THEN Error(GenericError)
                  ELSE IF env.send.kind = "accepted"
                  THEN [kind |-> "response",
                        transaction_id |-> transaction_hash(parameters),
                        adaptable_fee_per_gas |->
                            parameters.adaptable_fee_per_gas]
                  ELSE Error(send_raw_transaction_error(env.send))

submit_transaction(request, env) ==
    IF ~utilities.has_key THEN Error(GenericError)
    ELSE LET checked == check_transaction_submission_request(request) IN
         IF checked # "ok" THEN Error(checked)
         ELSE LET parameters ==
                      create_transaction_parameters(request, env.observed)
              IN  IF env.send.kind = "accepted"
                  THEN [kind |-> "response",
                        transaction_id |-> transaction_hash(parameters),
                        adaptable_fee_per_gas |->
                            parameters.adaptable_fee_per_gas]
                  ELSE Error(send_raw_transaction_error(env.send))

\* ----------------------------------------------------- resubmission engine
\* the bump without the floor of 1
bumped_without_floor(request) ==
    CeilDiv(request.min_adaptable_fee_per_gas
            * request.adaptable_fee_increase_factor, 1000)

\* a bump that adds 1 instead of multiplying by the factor
bumped_by_one(request) == request.min_adaptable_fee_per_gas + 1

\* max(1, math.ceil(min_adaptable_fee_per_gas * adaptable_fee_increase_factor))
\* an increase that leaves a fee of 1 or more as it is
bumped_to_itself(request) == Max2(1, request.min_adaptable_fee_per_gas)

\* an increase that rounds down and has no floor
bumped_rounded_down(request) ==
    (request.min_adaptable_fee_per_gas
     * request.adaptable_fee_increase_factor) \div 1000

bumped_min_adaptable_fee_per_gas(request) ==
    Max2(1, CeilDiv(request.min_adaptable_fee_per_gas
                    * request.adaptable_fee_increase_factor, 1000))

\* the loop without the comparison with the ceiling
exceeded_never(request, min_adaptable_fee_per_gas) == FALSE

max_total_fee_per_gas_exceeded(request, min_adaptable_fee_per_gas) ==
    /\ IsSet(request.max_total_fee_per_gas)
    /\ min_adaptable_fee_per_gas > Get(request.max_total_fee_per_gas)

\* the validation at the head of resubmit_transaction
resubmit_transaction_valid(request) ==
    /\ ~(request.min_adaptable_fee_per_gas < 0)
    /\ ~(request.adaptable_fee_increase_factor
         < MIN_ADAPTABLE_FEE_INCREASE_FACTOR)

\* a loop that goes on after every error
continues_on_any_error(response) == response.kind = "error"

\* except TransactionUnderpricedError: the only answer the loop goes on after
resubmission_continues(response) ==
    /\ response.kind = "error"
    /\ response.error = TransactionUnderpricedError

\* one pass through the while loop of resubmit_transaction: the state of the
\* call after it, for the answer env of the submit_transaction it makes
resubmit_iteration(request, calls, answers, env) ==
    LET min_adaptable_fee_per_gas == bumped_min_adaptable_fee_per_gas(request)
    IN  IF max_total_fee_per_gas_exceeded(request, min_adaptable_fee_per_gas)
        THEN [pc |-> "raised", request |-> request, calls |-> calls,
              answers |-> answers,
              result |-> Error(MaxTotalFeePerGasExceededError)]
        ELSE LET replaced == [request EXCEPT !.min_adaptable_fee_per_gas =
                                                 min_adaptable_fee_per_gas]
                 response == submit_transaction(replaced, env)
                 called == [request |-> replaced,
                            calls |-> Append(calls, replaced),
                            answers |-> Append(answers, response)]
             IN  IF response.kind = "response"
                 THEN called @@ [pc |-> "returned",
                                 result |->
                                     [kind |-> "response",
                                      transaction_id |->
                                          response.transaction_id,
                                      adaptable_fee_per_gas |->
                                          response.adaptable_fee_per_gas]]
                 ELSE IF resubmission_continues(response)
                 THEN called @@ [pc |-> "loop", result |-> NoResult]
                 ELSE called @@ [pc |-> "raised", result |-> response]

\* ------------------------------------------------------------------ inputs
Factors == {1100, MIN_ADAPTABLE_FEE_INCREASE_FACTOR, 1500, 2000}
Ceilings == {None} \cup {Some(c) : c \in 0..MaxCeiling}
ResubmissionRequests ==
    [min_adaptable_fee_per_gas : -1..MaxMinFee,
     max_total_fee_per_gas : Ceilings,
     adaptable_fee_increase_factor : Factors,
     gas : {None, Some(MinGas)},
     amount : {None},
     nonce : {0}]

Adapters == [type2 : BOOLEAN, has_key : BOOLEAN]

\* ----------------------------------------------------------------- actions
\* resubmit_transaction is called: the validation before the loop
resubmit_transaction_call ==
    /\ rs_pc \in {"idle", "returned", "raised"}
    /\ \E request \in ResubmissionRequests :
        /\ rs_input' = request
        /\ rs_request' = request
        /\ rs_calls' = <<>>
        /\ rs_answers' = <<>>
        /\ IF resubmit_transaction_valid(request)
           THEN rs_pc' = "loop" /\ rs_result' = NoResult
           ELSE rs_pc' = "raised" /\ rs_result' = Error(GenericError)
    /\ UNCHANGED <<lib_vars, st_vars, utilities,
                   dp_vars, pl_vars, tk_vars, sm_vars>>

\* one iteration of the while loop, with the answer of submit_transaction
resubmit_transaction_loop ==
    /\ rs_pc = "loop"
    /\ \E env \in SubmitEnvs :
        LET next == resubmit_iteration(rs_request, rs_calls, rs_answers, env)
        IN
        /\ next.pc = "loop" => Len(rs_calls) < MaxUnderpriced
        /\ rs_pc' = next.pc
        /\ rs_request' = next.request
        /\ rs_calls' = next.calls
        /\ rs_answers' = next.answers
        /\ rs_result' = next.result
    /\ UNCHANGED <<lib_vars, st_vars, utilities,
                   rs_input, dp_vars, pl_vars, tk_vars, sm_vars>>

ResubmitIdle ==
    /\ rs_pc = "idle"
    /\ rs_input = NoResult
    /\ rs_request = NoResult
    /\ rs_calls = <<>>
    /\ rs_answers = <<>>
    /\ rs_result = NoResult

NoOperation == [op |-> "none"]

DispatchIdle ==
    /\ dp_pool = <<>>
    /\ dp_values = <<>>
    /\ dp_wrappers = <<>>
    /\ dp_handles = <<>>
    /\ dp_last = NoOperation

PoolIdle ==
    /\ pl_primary = <<>>
    /\ pl_fallback = <<>>
    /\ pl_pc = "idle"
    /\ pl_fallback_nodes = <<>>
    /\ pl_connections = <<>>
    /\ pl_log = <<>>
    /\ pl_error = NoResult

SubmitIdle ==
    /\ sm_pc = "idle"
    /\ sm_request = NoResult
    /\ sm_env = NoResult
    /\ sm_effects = <<>>
    /\ sm_sent = NoResult
    /\ sm_result = NoResult

AbiIdle ==
    /\ ab_resources = {}
    /\ ab_loaded = <<>>
    /\ ab_log = <<>>

FactoryIdle ==
    /\ fc_utilities = <<>>
    /\ fc_log = <<>>
    /\ fc_last = NoOperation

HealthIdle ==
    /\ hl_nodes = <<>>
    /\ hl_pc = "idle"
    /\ hl_pending = {}
    /\ hl_health = <<>>
    /\ hl_result = NoResult

ReadIdle ==
    /\ rd_pc = "idle"
    /\ rd_env = NoResult
    /\ rd_result = NoResult

DependentIdle ==
    /\ dt_state = "NONE"
    /\ dt_retries = 0
    /\ dt_args = NoResult
    /\ dt_countdown = None
    /\ dt_result = NoResult
    /\ dt_read = NoResult
    /\ dt_started = <<>>

ChainIdle ==
    /\ ch_submitted = <<>>
    /\ ch_attempts = {}
    /\ ch_block = None

MoreIdle == ReadIdle /\ DependentIdle /\ ChainIdle

LibIdle == AbiIdle /\ FactoryIdle /\ HealthIdle /\ MoreIdle

StartIdle ==
    /\ st_pc = "idle"
    /\ st_request = NoResult
    /\ st_effects = <<>>
    /\ st_tasks = <<>>
    /\ st_result = NoResult

TaskIdle ==
    /\ tk_config = NoResult
    /\ tk_state = "NONE"
    /\ tk_retries = 0
    /\ tk_args = NoResult
    /\ tk_countdown = None
    /\ tk_result = NoResult
    /\ tk_created = NoResult
    /\ tk_read = NoResult
    /\ tk_known = NoResult
    /\ tk_id = NoResult
    /\ tk_poll = NoResult

InitResubmit ==
    /\ LibIdle
    /\ StartIdle
    /\ utilities \in Adapters
    /\ ResubmitIdle
    /\ DispatchIdle
    /\ PoolIdle
    /\ TaskIdle
    /\ SubmitIdle

NextResubmit == resubmit_transaction_call \/ resubmit_transaction_loop

SpecResubmit == InitResubmit /\ [][NextResubmit]_vars

\* ------------------------------------------ resubmission under a ceiling
\* the requests with a max total fee per gas
CeilingResubmissionRequests ==
    {request \in ResubmissionRequests : IsSet(request.max_total_fee_per_gas)}

\* resubmit_transaction is called with a ceiling: the validation before the
\* loop
resubmit_transaction_under_ceiling_call ==
    /\ rs_pc \in {"idle", "returned", "raised"}
    /\ \E request \in CeilingResubmissionRequests :
        /\ rs_input' = request
        /\ rs_request' = request
        /\ rs_calls' = <<>>
        /\ rs_answers' = <<>>
        /\ IF resubmit_transaction_valid(request)
           THEN rs_pc' = "loop" /\ rs_result' = NoResult
           ELSE rs_pc' = "raised" /\ rs_result' = Error(GenericError)
    /\ UNCHANGED <<lib_vars, st_vars, utilities,
                   dp_vars, pl_vars, tk_vars, sm_vars>>

\* what the nodes answer to the submissions of the call: one answer for
\* each outcome of submit_transaction
CeilingSubmitEnvs ==
    [observed : 0..MaxObservedFee,
     send : {[kind |-> "accepted", msg |-> {}],
             [kind |-> "ValueError", msg |-> {UnderpricedMessage}],
             [kind |-> "ValueError", msg |-> {"nonce too low"}],
             [kind |-> "ResultsNotMatching", msg |-> {}],
             [kind |-> "Exception", msg |-> {}]}]

\* one iteration of the while loop, whatever submit_transaction answers and
\* however many iterations there were
resubmit_transaction_under_ceiling_loop ==
    /\ rs_pc = "loop"
    /\ \E env \in CeilingSubmitEnvs :
        LET next == resubmit_iteration(rs_request, rs_calls, rs_answers, env)
        IN
        /\ rs_pc' = next.pc
        /\ rs_request' = next.request
        /\ rs_calls' = next.calls
        /\ rs_answers' = next.answers
        /\ rs_result' = next.result
    /\ UNCHANGED <<lib_vars, st_vars, utilities,
                   rs_input, dp_vars, pl_vars, tk_vars, sm_vars>>

NextResubmitCeiling ==
    \/ resubmit_transaction_under_ceiling_call
    \/ resubmit_transaction_under_ceiling_loop

\* the loop is sequential code: an iteration that can run does run
SpecResubmitCeiling ==
    /\ InitResubmit
    /\ [][NextResubmitCeiling]_vars
    /\ WF_vars(resubmit_transaction_under_ceiling_loop)

\* --------------------------------------------------- multi-node dispatcher
\* _TRANSACTION_METHOD_NAMES of the EVM adapter
TRANSACTION_METHOD_NAMES ==
    {"send_transaction", "replace_transaction", "modify_transaction",
     "send_raw_transaction", "transact"}

\* the attribute names and index keys the caller uses
AttributeNames == {"eth", "get_balance", "send_raw_transaction"}
IndexKeys == {"blockNumber"}

\* what a node can answer: equal numbers of different types are equal (==)
NodeValues == {[tag |-> "int", v |-> 10], [tag |-> "float", v |-> 10],
               [tag |-> "int", v |-> 15]}

Step(op, arg) == [op |-> op, arg |-> arg]

\* a wrapped object: what the steps of path give on the node
RootObject(node) == [node |-> node, path |-> <<>>]
Apply(object, step) == [object EXCEPT !.path = Append(@, step)]

\* the Python value of a wrapped object, and Python's == on two of them
Result(object) ==
    [path |-> object.path, tag |-> dp_values[object.node].tag,
     v |-> dp_values[object.node].v]
PyEq(a, b) == a.path = b.path /\ a.v = b.v

\* str(index) for one decimal digit
DecimalDigits == <<"0", "1", "2", "3", "4", "5", "6", "7", "8", "9">>
str(index) == DecimalDigits[index + 1]

\* a wrapper that takes no attribute for a transaction function
Wrapper_never_transaction(objects, attr_name) ==
    [is_transaction_function |-> FALSE,
     objects |-> [i \in 1..Len(objects) |->
                     Apply(objects[i], Step("attr", attr_name))]]

\* Wrapper.__init__
Wrapper(objects, attr_name) ==
    LET is_transaction_function == attr_name \in TRANSACTION_METHOD_NAMES
    IN  [is_transaction_function |-> is_transaction_function,
         objects |->
             IF is_transaction_function
             THEN <<Apply(objects[1], Step("attr", attr_name))>>
             ELSE [i \in 1..Len(objects) |->
                      Apply(objects[i], Step("attr", attr_name))]]

\* a get() that lets the first result stand for all
Wrapper_get_unchecked(objects) ==
    [kind |-> "value", value |-> Result(objects[1])]

\* Wrapper.get
Wrapper_get(objects) ==
    LET result == Result(objects[1]) IN
    IF \A i \in 2..Len(objects) : PyEq(result, Result(objects[i]))
    THEN [kind |-> "value", value |-> result]
    ELSE [kind |-> "error", error |-> ResultsNotMatchingError,
          details |-> [i \in 1..Len(objects) |->
                          <<str(i - 1), Result(objects[i])>>]]

Nodes(objects) == {objects[i].node : i \in 1..Len(objects)}

\* no reference made after h points to the wrapper of h
Latest(h) ==
    \A g \in (h + 1)..Len(dp_handles) :
        dp_handles[g].wrapper # dp_handles[h].wrapper

\* a reference made from h continues one chain written as one expression:
\* h is such a chain and no step was made on its wrapper since
Continues(h) == dp_handles[h].linear /\ Latest(h)

\* NodeConnections.__getattr__
NodeConnections_getattr ==
    /\ Len(dp_handles) < MaxHandles
    /\ \E attr_name \in AttributeNames :
        IF Len(dp_pool) = 0
        THEN /\ dp_last' = [op |-> "getattr", handle |-> 0,
                            steps |-> <<Step("attr", attr_name)>>,
                            invoked |-> <<>>, candidates |-> {},
                            returned |-> [kind |-> "error",
                                          error |-> "NodeConnectionError"]]
             /\ UNCHANGED <<dp_wrappers, dp_handles>>
        ELSE /\ dp_wrappers' =
                  Append(dp_wrappers,
                         Wrapper([i \in 1..Len(dp_pool) |->
                                     RootObject(dp_pool[i])], attr_name))
             /\ dp_handles' =
                  Append(dp_handles,
                         [steps |-> <<Step("attr", attr_name)>>,
                          wrapper |-> Len(dp_wrappers) + 1,
                          linear |-> TRUE])
             /\ dp_last' = [op |-> "getattr", handle |-> 0,
                            steps |-> <<Step("attr", attr_name)>>,
                            invoked |-> <<>>, candidates |-> {},
                            returned |-> [kind |-> "proxy",
                                          wrapper |-> Len(dp_wrappers) + 1]]
    /\ UNCHANGED <<lib_vars, st_vars, utilities,
                   rs_vars, pl_vars, tk_vars, sm_vars, dp_pool,
                   dp_values>>

\* an attribute access that replaces the objects of the wrapper in place
\* and returns the wrapper itself
Wrapper_getattr_in_place ==
    /\ Len(dp_handles) < MaxHandles
    /\ \E h \in 1..Len(dp_handles), attr_name \in AttributeNames :
        LET w == dp_handles[h].wrapper
            steps == Append(dp_handles[h].steps, Step("attr", attr_name))
        IN
        /\ dp_wrappers' =
             [dp_wrappers EXCEPT ![w] = Wrapper(@.objects, attr_name)]
        /\ dp_handles' = Append(dp_handles,
                                [steps |-> steps, wrapper |-> w,
                                 linear |-> Continues(h)])
        /\ dp_last' = [op |-> "getattr", handle |-> h, steps |-> steps,
                       invoked |-> <<>>, candidates |-> {},
                       returned |-> [kind |-> "proxy", wrapper |-> w]]
    /\ UNCHANGED <<lib_vars, st_vars, utilities,
                   rs_vars, pl_vars, tk_vars, sm_vars, dp_pool,
                   dp_values>>

\* Wrapper.__getattr__ on the wrapper the reference h points to
Wrapper_getattr ==
    /\ Len(dp_handles) < MaxHandles
    /\ \E h \in 1..Len(dp_handles), attr_name \in AttributeNames :
        LET steps == Append(dp_handles[h].steps, Step("attr", attr_name)) IN
        /\ dp_wrappers' =
             Append(dp_wrappers,
                    Wrapper(dp_wrappers[dp_handles[h].wrapper].objects,
                            attr_name))
        /\ dp_handles' = Append(dp_handles,
                                [steps |-> steps,
                                 wrapper |-> Len(dp_wrappers) + 1,
                                 linear |-> Continues(h)])
        /\ dp_last' = [op |-> "getattr", handle |-> h, steps |-> steps,
                       invoked |-> <<>>, candidates |-> {},
                       returned |-> [kind |-> "proxy",
                                     wrapper |-> Len(dp_wrappers) + 1]]
    /\ UNCHANGED <<lib_vars, st_vars, utilities,
                   rs_vars, pl_vars, tk_vars, sm_vars, dp_pool,
                   dp_values>>

\* Wrapper.__getitem__: the objects are replaced in place, self is returned
Wrapper_getitem ==
    /\ Len(dp_handles) < MaxHandles
    /\ \E h \in 1..Len(dp_handles), index \in IndexKeys :
        LET w == dp_handles[h].wrapper
            steps == Append(dp_handles[h].steps, Step("index", index))
            objects == dp_wrappers[w].objects
        IN
        /\ dp_wrappers' =
             [dp_wrappers EXCEPT ![w].objects =
                 [i \in 1..Len(objects) |->
                     Apply(objects[i], Step("index", index))]]
        /\ dp_handles' = Append(dp_handles,
                                [steps |-> steps, wrapper |-> w,
                                 linear |-> Continues(h)])
        /\ dp_last' = [op |-> "getitem", handle |-> h, steps |-> steps,
                       invoked |-> <<>>, candidates |-> {},
                       returned |-> [kind |-> "proxy", wrapper |-> w]]
    /\ UNCHANGED <<lib_vars, st_vars, utilities,
                   rs_vars, pl_vars, tk_vars, sm_vars, dp_pool,
                   dp_values>>

\* Wrapper.__call__
Wrapper_call ==
    /\ Len(dp_handles) < MaxHandles
    /\ \E h \in 1..Len(dp_handles) :
        LET w == dp_handles[h].wrapper
            steps == Append(dp_handles[h].steps, Step("call", ""))
            objects == dp_wrappers[w].objects
        IN
        IF dp_wrappers[w].is_transaction_function
        THEN \E random_node_index \in 0..(Len(objects) - 1) :
                LET object_ == objects[random_node_index + 1] IN
                /\ dp_last' =
                     [op |-> "call", handle |-> h, steps |-> steps,
                      invoked |-> <<object_.node>>,
                      candidates |-> Nodes(objects),
                      returned |->
                          [kind |-> "raw",
                           value |-> Result(Apply(object_,
                                                  Step("call", "")))]]
                /\ UNCHANGED <<dp_wrappers, dp_handles>>
        ELSE /\ dp_wrappers' =
                  [dp_wrappers EXCEPT ![w].objects =
                      [i \in 1..Len(objects) |->
                          Apply(objects[i], Step("call", ""))]]
             /\ dp_handles' =
                  Append(dp_handles, [steps |-> steps, wrapper |-> w,
                                      linear |-> Continues(h)])
             /\ dp_last' =
                  [op |-> "call", handle |-> h, steps |-> steps,
                   invoked |-> [i \in 1..Len(objects) |-> objects[i].node],
                   candidates |-> Nodes(objects),
                   returned |-> [kind |-> "proxy", wrapper |-> w]]
    /\ UNCHANGED <<lib_vars, st_vars, utilities,
                   rs_vars, pl_vars, tk_vars, sm_vars, dp_pool,
                   dp_values>>

\* Wrapper.get on the wrapper the reference h points to
Wrapper_get_call ==
    /\ \E h \in 1..Len(dp_handles) :
        dp_last' = [op |-> "get", handle |-> h,
                    steps |-> dp_handles[h].steps,
                    invoked |-> <<>>, candidates |-> {},
                    returned |->
                        Wrapper_get(
                            dp_wrappers[dp_handles[h].wrapper].objects)]
    /\ UNCHANGED <<lib_vars, st_vars, utilities,
                   rs_vars, pl_vars, tk_vars, sm_vars, dp_pool,
                   dp_values,
                   dp_wrappers, dp_handles>>

\* a pool of 0..MaxNodes connections (NodeConnections.add_node_connection)
InitDispatch ==
    /\ LibIdle
    /\ StartIdle
    /\ utilities \in {[type2 |-> TRUE, has_key |-> TRUE]}
    /\ ResubmitIdle
    /\ \E n \in 0..MaxNodes :
        /\ dp_pool = [i \in 1..n |-> i]
        /\ dp_values \in [1..n -> NodeValues]
    /\ dp_wrappers = <<>>
    /\ dp_handles = <<>>
    /\ dp_last = NoOperation
    /\ PoolIdle
    /\ TaskIdle
    /\ SubmitIdle

NextDispatch ==
    \/ NodeConnections_getattr
    \/ Wrapper_getattr
    \/ Wrapper_getitem
    \/ Wrapper_call
    \/ Wrapper_get_call

SpecDispatch == InitDispatch /\ [][NextDispatch]_vars

\* ------------------------------------------------- node pool construction
\* node URLs: two of them on the same host
NodeUrls == {[netloc |-> "h1", path |-> "/a"], [netloc |-> "h1", path |-> "/b"],
             [netloc |-> "h2", path |-> "/a"]}

SeqsUpTo(S, lo, hi) == UNION {[1..n -> S] : n \in lo..hi}

\* list.remove(value): the list without the first occurrence of value
RECURSIVE Remove(_, _)
Remove(list, value) ==
    IF list = <<>> THEN <<>>
    ELSE IF Head(list) = value THEN Tail(list)
    ELSE <<Head(list)>> \o Remove(Tail(list), value)

\* the first attempt that succeeds, 0 if none does
FirstSuccess(live) ==
    IF \E j \in DOMAIN live : live[j]
    THEN CHOOSE j \in DOMAIN live :
            live[j] /\ \A i \in DOMAIN live : i < j => ~live[i]
    ELSE 0

\* a fallback list that loses nothing
create_valid_node_connection_keeps_fallbacks(blockchain_node_url, fallback_blockchain_node_urls, live) ==
    LET blockchain_node_urls ==
            <<blockchain_node_url>> \o fallback_blockchain_node_urls
        j == FirstSuccess(live)
    IN  IF j = 0
        THEN [kind |-> "error", error |-> GenericError,
              domains |-> [i \in 1..Len(blockchain_node_urls) |->
                              blockchain_node_urls[i].netloc],
              attempts |-> [i \in 1..Len(blockchain_node_urls) |->
                               [url |-> blockchain_node_urls[i],
                                ok |-> FALSE]],
              fallback_nodes |-> fallback_blockchain_node_urls]
        ELSE [kind |-> "connection",
              connection |-> blockchain_node_urls[j],
              attempts |-> [i \in 1..j |->
                               [url |-> blockchain_node_urls[i],
                                ok |-> i = j]],
              fallback_nodes |-> fallback_blockchain_node_urls]

\* __create_valid_node_connection: live[j] tells whether the j-th call of
\* _create_single_node_connection succeeds; a connection is named by its URL
create_valid_node_connection(blockchain_node_url, fallback_blockchain_node_urls, live) ==
    LET blockchain_node_urls ==
            <<blockchain_node_url>> \o fallback_blockchain_node_urls
        j == FirstSuccess(live)
    IN  IF j = 0
        THEN [kind |-> "error", error |-> GenericError,
              domains |-> [i \in 1..Len(blockchain_node_urls) |->
                              blockchain_node_urls[i].netloc],
              attempts |-> [i \in 1..Len(blockchain_node_urls) |->
                               [url |-> blockchain_node_urls[i],
                                ok |-> FALSE]],
              fallback_nodes |-> fallback_blockchain_node_urls]
        ELSE [kind |-> "connection",
              connection |-> blockchain_node_urls[j],
              attempts |-> [i \in 1..j |->
                               [url |-> blockchain_node_urls[i],
                                ok |-> i = j]],
              fallback_nodes |->
                  IF blockchain_node_urls[j] # blockchain_node_url
                  THEN Remove(fallback_blockchain_node_urls,
                              blockchain_node_urls[j])
                  ELSE fallback_blockchain_node_urls]

\* create_node_connections up to its loop: the copy of the fallback list
create_node_connections_call ==
    /\ pl_pc \in {"idle", "returned", "raised"}
    /\ pl_fallback_nodes' = pl_fallback
    /\ pl_connections' = <<>>
    /\ pl_log' = <<>>
    /\ pl_error' = NoResult
    /\ pl_pc' = "running"
    /\ UNCHANGED <<lib_vars, st_vars, utilities,
                   rs_vars, dp_vars, tk_vars, sm_vars, pl_primary,
                   pl_fallback>>

\* a loop that consumes the fallbacks from the configured list itself
create_node_connections_loop_on_configured_list ==
    /\ pl_pc = "running"
    /\ LET blockchain_node_url == pl_primary[Len(pl_connections) + 1] IN
       \E live \in [1..(1 + Len(pl_fallback_nodes)) -> BOOLEAN] :
        LET made == create_valid_node_connection(blockchain_node_url,
                                                 pl_fallback_nodes, live)
        IN
        /\ pl_log' = Append(pl_log, [attempts |-> made.attempts,
                                     live |-> live,
                                     before |-> pl_fallback_nodes,
                                     after |-> made.fallback_nodes])
        /\ pl_fallback_nodes' = made.fallback_nodes
        /\ pl_fallback' = made.fallback_nodes
        /\ IF made.kind = "error"
           THEN /\ pl_pc' = "raised"
                /\ pl_error' = [kind |-> "error", error |-> made.error,
                                domains |-> made.domains]
                /\ UNCHANGED pl_connections
           ELSE /\ pl_connections' = Append(pl_connections, made.connection)
                /\ pl_error' = NoResult
                /\ pl_pc' = IF Len(pl_connections) + 1 = Len(pl_primary)
                            THEN "returned" ELSE "running"
    /\ UNCHANGED <<lib_vars, st_vars, utilities,
                   rs_vars, dp_vars, tk_vars, sm_vars, pl_primary>>

\* one pass of the loop over the primaries; after the last one the pool is
\* returned
create_node_connections_loop ==
    /\ pl_pc = "running"
    /\ LET blockchain_node_url == pl_primary[Len(pl_connections) + 1] IN
       \E live \in [1..(1 + Len(pl_fallback_nodes)) -> BOOLEAN] :
        LET made == create_valid_node_connection(blockchain_node_url,
                                                 pl_fallback_nodes, live)
        IN
        /\ pl_log' = Append(pl_log, [attempts |-> made.attempts,
                                     live |-> live,
                                     before |-> pl_fallback_nodes,
                                     after |-> made.fallback_nodes])
        /\ pl_fallback_nodes' = made.fallback_nodes
        /\ IF made.kind = "error"
           THEN /\ pl_pc' = "raised"
                /\ pl_error' = [kind |-> "error", error |-> made.error,
                                domains |-> made.domains]
                /\ UNCHANGED pl_connections
           ELSE /\ pl_connections' = Append(pl_connections, made.connection)
                /\ pl_error' = NoResult
                /\ pl_pc' = IF Len(pl_connections) + 1 = Len(pl_primary)
                            THEN "returned" ELSE "running"
    /\ UNCHANGED <<lib_vars, st_vars, utilities,
                   rs_vars, dp_vars, tk_vars, sm_vars, pl_primary,
                   pl_fallback>>

\* an adapter with at least one primary URL (BlockchainUtilities.__init__)
InitPool ==
    /\ LibIdle
    /\ StartIdle
    /\ utilities \in {[type2 |-> TRUE, has_key |-> TRUE]}
    /\ ResubmitIdle
    /\ DispatchIdle
    /\ pl_primary \in SeqsUpTo(NodeUrls, 1, MaxPrimaries)
    /\ pl_fallback \in SeqsUpTo(NodeUrls, 0, MaxFallbacks)
    /\ pl_pc = "idle"
    /\ pl_fallback_nodes = <<>>
    /\ pl_connections = <<>>
    /\ pl_log = <<>>
    /\ pl_error = NoResult
    /\ TaskIdle
    /\ SubmitIdle

NextPool == create_node_connections_call \/ create_node_connections_loop

SpecPool == InitPool /\ [][NextPool]_vars

\* ----------------------------------------------------------- lifecycle task
\* the whole call of resubmit_transaction, for the answers envs of the
\* submit_transaction calls it makes; "unanswered" when the answers run out
RECURSIVE resubmit_transaction_loop_result(_, _)
resubmit_transaction_loop_result(request, envs) ==
    IF envs = <<>> THEN [kind |-> "unanswered"]
    ELSE LET next == resubmit_iteration(request, <<>>, <<>>, Head(envs))
         IN  IF next.pc = "loop"
             THEN resubmit_transaction_loop_result(next.request, Tail(envs))
             ELSE next.result

resubmit_transaction(request, envs) ==
    IF resubmit_transaction_valid(request)
    THEN resubmit_transaction_loop_result(request, envs)
    ELSE Error(GenericError)

\* ContractAbi and semantic_version.Version, and what to_dict makes of them
ContractAbiValues == [STANDARD_TOKEN |-> 0, PANTOS_TOKEN |-> 1,
                      PANTOS_HUB |-> 2, PANTOS_FORWARDER |-> 3]
ContractAbiNames == DOMAIN ContractAbiValues
Versions == {<<1, 0, 0>>, <<1, 0, 1>>}
VersionString(version) ==
    str(version[1]) \o "." \o str(version[2]) \o "." \o str(version[3])

\* TransactionSubmissionRequest.to_dict
to_dict(request) ==
    [request EXCEPT !.versioned_contract_abi =
        [contract_abi |-> ContractAbiValues[@.contract_abi],
         version |-> VersionString(@.version)]]

\* a conversion that takes every version for the first one
from_dict_first_version(request_dict) ==
    [request_dict EXCEPT !.versioned_contract_abi =
        [contract_abi |-> CHOOSE name \in ContractAbiNames :
                              ContractAbiValues[name] = @.contract_abi,
         version |-> <<1, 0, 0>>]]

\* TransactionSubmissionRequest.from_dict
from_dict(request_dict) ==
    [request_dict EXCEPT !.versioned_contract_abi =
        [contract_abi |-> CHOOSE name \in ContractAbiNames :
                              ContractAbiValues[name] = @.contract_abi,
         version |-> CHOOSE version \in Versions :
                         VersionString(version) = @.version]]

\* what read_transaction_status gives: a status or an error
ReadOutcomes ==
    {[kind |-> "status", status |-> status] :
        status \in {UNINCLUDED, UNCONFIRMED, CONFIRMED, REVERTED}}
    \cup {Error(GenericError)}

\* the answers of the nodes to the submissions of the task
TaskSubmitEnvs ==
    [observed : {0},
     send : {[kind |-> "accepted", msg |-> {}],
             [kind |-> "ValueError", msg |-> {UnderpricedMessage}],
             [kind |-> "Exception", msg |-> {}]}]

\* a retry that gives up one retry early
retry_one_short(retries, args, countdown, exc) ==
    IF retries + 1 >= MAX_TRANSACTION_RESUBMISSION_TASK_RETRIES
    THEN [state |-> "FAILURE", retries |-> retries, args |-> args,
          countdown |-> None,
          result |-> IF IsSet(exc) THEN Get(exc)
                     ELSE Error("MaxRetriesExceededError"),
          retry |-> Some([args |-> args, countdown |-> countdown,
                          exc |-> exc])]
    ELSE [state |-> "RETRY", retries |-> retries + 1, args |-> args,
          countdown |-> Some(countdown), result |-> NoResult,
          retry |-> Some([args |-> args, countdown |-> countdown,
                          exc |-> exc])]

\* celery.Task.retry: the next activation, or the failure of the task when
\* the retries are used up (with exc if one is given); retry tells what was
\* asked for
retry(retries, args, countdown, exc) ==
    IF retries + 1 > MAX_TRANSACTION_RESUBMISSION_TASK_RETRIES
    THEN [state |-> "FAILURE", retries |-> retries, args |-> args,
          countdown |-> None,
          result |-> IF IsSet(exc) THEN Get(exc)
                     ELSE Error("MaxRetriesExceededError"),
          retry |-> Some([args |-> args, countdown |-> countdown,
                          exc |-> exc])]
    ELSE [state |-> "RETRY", retries |-> retries + 1, args |-> args,
          countdown |-> Some(countdown), result |-> NoResult,
          retry |-> Some([args |-> args, countdown |-> countdown,
                          exc |-> exc])]

\* task arguments that keep the id of the transaction submitted before
resubmitted_task_args_stale_id(args, request, response) ==
    [blocks_until_resubmission |-> args.blocks_until_resubmission,
     transaction_id |-> args.transaction_id,
     request_dict |->
         to_dict([request EXCEPT !.min_adaptable_fee_per_gas =
                                     response.adaptable_fee_per_gas])]

\* task arguments that keep the min adaptable fee of the request
resubmitted_task_args_stale_fee(args, request, response) ==
    [blocks_until_resubmission |-> args.blocks_until_resubmission,
     transaction_id |-> response.transaction_id,
     request_dict |-> to_dict(request)]

\* the arguments of the activation after a resubmission
resubmitted_task_args(args, request, response) ==
    [blocks_until_resubmission |-> args.blocks_until_resubmission,
     transaction_id |-> response.transaction_id,
     request_dict |->
         to_dict([request EXCEPT !.min_adaptable_fee_per_gas =
                                     response.adaptable_fee_per_gas])]

\* a countdown from the confirmations instead of the blocks to wait
resubmission_countdown_of_confirmations(config, args) ==
    config.average_block_time * config.required_transaction_confirmations

resubmission_countdown(config, args) ==
    config.average_block_time * args.blocks_until_resubmission

\* a countdown of one block
confirmation_countdown_of_one_block(config) == config.average_block_time

confirmation_countdown(config) ==
    config.average_block_time * config.required_transaction_confirmations

\* a countdown that does not grow with the retries
ceiling_countdown_constant(config, retries) == confirmation_countdown(config)

\* a countdown that counts the retry being scheduled
ceiling_countdown_of_next_retry(config, retries) ==
    confirmation_countdown(config) * (retries + 1)

\* countdown = confirmation_countdown * self.request.retries
ceiling_countdown(config, retries) ==
    confirmation_countdown(config) * retries

\* a task that reports every status it ends on as Confirmed
task_return_always_confirmed(transaction_status, transaction_id) ==
    [kind |-> "value", status |-> CONFIRMED,
     transaction_id |-> transaction_id]

\* return transaction_status.value, transaction_id
task_return(transaction_status, transaction_id) ==
    [kind |-> "value", status |-> transaction_status,
     transaction_id |-> transaction_id]

\* one activation of _transaction_resubmission_task: read is what
\* read_transaction_status gives, envs what the nodes answer to the
\* submissions of resubmit_transaction; engine lists the calls of
\* resubmit_transaction with their outcomes
transaction_resubmission_task(retries, args, config, read, envs) ==
    IF read.kind = "error"
    THEN retry(retries, args, resubmission_countdown(config, args),
               Some(read))
         @@ [engine |-> <<>>]
    ELSE IF read.status = UNINCLUDED
    THEN LET request == from_dict(args.request_dict)
             response == resubmit_transaction(request, envs)
             engine == <<[request |-> request, response |-> response]>>
         IN  IF response.kind = "unanswered" THEN response
             ELSE IF response.kind = "error"
                     /\ response.error = MaxTotalFeePerGasExceededError
             THEN retry(retries, args, ceiling_countdown(config, retries),
                        Some(response))
                  @@ [engine |-> engine]
             ELSE IF response.kind = "error"
             THEN retry(retries, args, resubmission_countdown(config, args),
                        Some(response))
                  @@ [engine |-> engine]
             ELSE retry(retries,
                        resubmitted_task_args(args, request, response),
                        resubmission_countdown(config, args), None)
                  @@ [engine |-> engine]
    ELSE IF read.status = UNCONFIRMED
    THEN retry(retries, args, confirmation_countdown(config), None)
         @@ [engine |-> <<>>]
    ELSE [state |-> "SUCCESS", retries |-> retries, args |-> args,
          countdown |-> None,
          result |-> task_return(read.status, args.transaction_id),
          retry |-> None, engine |-> <<>>]

\* the answers the nodes give to the submissions of one activation: none
\* when the task does not resubmit, else as many as resubmit_transaction uses
TaskEnvs(args, read) ==
    IF read.kind = "status" /\ read.status = UNINCLUDED
    THEN {envs \in SeqsUpTo(TaskSubmitEnvs, 1, MaxTaskUnderpriced + 1) :
            /\ resubmit_transaction(from_dict(args.request_dict),
                                    envs).kind # "unanswered"
            /\ Len(envs) > 1 =>
                resubmit_transaction(from_dict(args.request_dict),
                                     SubSeq(envs, 1, Len(envs) - 1)).kind
                = "unanswered"}
    ELSE {<<>>}

\* the worker runs the task
transaction_resubmission_task_run ==
    /\ tk_state \in {"PENDING", "RETRY"}
    /\ \E read \in ReadOutcomes :
       \E envs \in TaskEnvs(tk_args, read) :
       \E next \in {transaction_resubmission_task(tk_retries, tk_args,
                                                  tk_config, read, envs)} :
        /\ next.args.request_dict.min_adaptable_fee_per_gas <= MaxTaskFee + 1
        /\ tk_state' = next.state
        /\ tk_retries' = next.retries
        /\ tk_args' = next.args
        /\ tk_countdown' = next.countdown
        /\ tk_result' = next.result
        /\ tk_read' = [activation |-> tk_retries + 1, outcome |-> read,
                        retries |-> tk_retries, args |-> tk_args,
                        engine |-> next.engine, retry |-> next.retry]
        /\ tk_known' =
             IF next.engine # <<>> /\ next.engine[1].response.kind = "response"
             THEN next.engine[1].response.transaction_id
             ELSE tk_known
        /\ tk_poll' = NoResult
    /\ UNCHANGED <<lib_vars, st_vars, utilities,
                   rs_vars, dp_vars, pl_vars, sm_vars, tk_config,
                   tk_created, tk_id>>

\* the requests start_transaction_submission accepts
StartRequests ==
    [min_adaptable_fee_per_gas : {0},
     max_total_fee_per_gas : {None, Some(MaxTaskFee)},
     adaptable_fee_increase_factor : {MIN_ADAPTABLE_FEE_INCREASE_FACTOR},
     gas : {None},
     amount : {None},
     nonce : {0},
     versioned_contract_abi : {[contract_abi |-> "PANTOS_HUB",
                                version |-> <<1, 0, 0>>]},
     blocks_until_resubmission : {3}]

TaskConfigs == [average_block_time : {2},
                required_transaction_confirmations : {2},
                celery_tasks_enabled : {TRUE}]

\* request without its field blocks_until_resubmission
WithoutBlocks(request) ==
    [field \in DOMAIN request \ {"blocks_until_resubmission"} |->
        request[field]]

\* create_transaction_resubmission_task: the arguments of the first activation
create_transaction_resubmission_task(request, response) ==
    [blocks_until_resubmission |-> request.blocks_until_resubmission,
     transaction_id |-> response.transaction_id,
     request_dict |->
         WithoutBlocks(to_dict([request EXCEPT !.min_adaptable_fee_per_gas =
                                    response.adaptable_fee_per_gas]))]

\* TransactionStatus(transaction_status_id)
TransactionStatusNames == <<"UNINCLUDED", "UNCONFIRMED", "CONFIRMED", "REVERTED">>
TransactionStatus(transaction_status_id) ==
    TransactionStatusNames[transaction_status_id + 1]

\* a lookup that takes a failed task for one that has not finished
get_transaction_resubmission_task_result_success_only(state, result) ==
    IF state # "SUCCESS" THEN [kind |-> "value", value |-> None]
    ELSE [kind |-> "value",
          value |-> Some([transaction_status |->
                              TransactionStatus(result.status),
                          transaction_id |-> result.transaction_id])]

\* get_transaction_resubmission_task_result for a task in this state with
\* this result: None before the task is ready, the pair the task returned,
\* or the error the task failed with
get_transaction_resubmission_task_result(state, result) ==
    IF state \notin {"SUCCESS", "FAILURE"}
    THEN [kind |-> "value", value |-> None]
    ELSE IF state = "FAILURE" THEN result
    ELSE [kind |-> "value",
          value |-> Some([transaction_status |->
                              TransactionStatus(result.status),
                          transaction_id |-> result.transaction_id])]

\* get_transaction_submission_status
get_transaction_submission_status(internal_transaction_id, state, result) ==
    IF ~tk_config.celery_tasks_enabled THEN Error(GenericError)
    ELSE LET task_result ==
                 get_transaction_resubmission_task_result(state, result)
         IN  IF task_result.kind = "error"
             THEN Error(GenericError)
                  @@ [internal_transaction_id |-> internal_transaction_id]
             ELSE IF task_result.value = None
             THEN [kind |-> "value",
                   transaction_submission_completed |-> FALSE,
                   transaction_status |-> None, transaction_id |-> None]
             ELSE [kind |-> "value",
                   transaction_submission_completed |-> TRUE,
                   transaction_status |->
                       Some(Get(task_result.value).transaction_status),
                   transaction_id |->
                       Some(Get(task_result.value).transaction_id)]

\* the status of the submission is asked for with the id
\* start_transaction_submission returned
get_transaction_submission_status_call ==
    /\ tk_state # "NONE"
    /\ tk_poll = NoResult
    /\ tk_poll' = [internal_transaction_id |-> tk_id,
                   response |->
                       get_transaction_submission_status(tk_id, tk_state,
                                                         tk_result)]
    /\ UNCHANGED <<lib_vars, st_vars, utilities,
                   rs_vars, dp_vars, pl_vars, sm_vars,
                   tk_config, tk_state, tk_retries, tk_args, tk_countdown,
                   tk_result, tk_created, tk_read, tk_known, tk_id>>

\* the task start_transaction_submission has created after the first
\* submission was accepted
InitTask ==
    /\ LibIdle
    /\ StartIdle
    /\ utilities \in {[type2 |-> TRUE, has_key |-> TRUE]}
    /\ ResubmitIdle
    /\ DispatchIdle
    /\ PoolIdle
    /\ SubmitIdle
    /\ tk_config \in TaskConfigs
    /\ \E request \in StartRequests :
        LET response ==
                submit_transaction(request,
                                   [observed |-> 0,
                                    send |-> [kind |-> "accepted",
                                              msg |-> {}]])
        IN  /\ response.kind = "response"
            /\ tk_args = create_transaction_resubmission_task(request,
                                                              response)
            /\ tk_countdown = Some(tk_config.average_block_time
                                   * request.blocks_until_resubmission)
            /\ tk_known = response.transaction_id
    /\ tk_created = tk_args
    /\ tk_state = "PENDING"
    /\ tk_retries = 0
    /\ tk_result = NoResult
    /\ tk_read = [activation |-> 0, outcome |-> NoResult, retries |-> 0,
                   args |-> NoResult, engine |-> <<>>, retry |-> None]
    /\ tk_id \in {1}
    /\ tk_poll = NoResult

NextTask ==
    \/ transaction_resubmission_task_run
    \/ get_transaction_submission_status_call

\* the worker runs a task that waits for its activation
SpecTask ==
    InitTask /\ [][NextTask]_vars /\ WF_vars(transaction_resubmission_task_run)

\* ------------------------------------------- submit_transaction on a pool
\* Wrapper.get_minimum_result: values are the results of the members, None
\* for a result that is not an int
Wrapper_get_minimum_result(values) ==
    IF \E i \in DOMAIN values : ~IsSet(values[i])
    THEN Error("NodeConnectionError")
    ELSE [kind |-> "value",
          value |-> CHOOSE v \in {Get(values[i]) : i \in DOMAIN values} :
                        \A i \in DOMAIN values : v <= Get(values[i])]

\* what the nodes answer during one call of submit_transaction: whether the
\* caller gives the pool, whether create_node_connections succeeds, the
\* baseFeePerGas (type 2) or gas_price (legacy) of every member, how
\* build_transaction(...).get() ends, and the answer to send_raw_transaction.
\* Answers the call never asks for have one fixed value.
FeeAnswers == {None} \cup {Some(fee) : fee \in 0..MaxObservedFee}
               \cup {Some(BASE_FEE_PER_GAS)}
BuildOutcomes == {"built", "ResultsNotMatching", "Exception"}
Accepted == [kind |-> "accepted", msg |-> {}]
SubmitCallEnvs ==
    {env \in [given : BOOLEAN, created : BOOLEAN,
              fees : SeqsUpTo(FeeAnswers, 1, MaxSubmitNodes),
              build : BuildOutcomes, send : SendOutcomes] :
        /\ env.given => env.created
        /\ ~env.created => env.fees = <<Some(0)>>
        /\ (~env.created \/ \E i \in DOMAIN env.fees : ~IsSet(env.fees[i]))
           => env.build = "built"
        /\ env.build # "built" => env.send = Accepted}

\* the requests of the callers: every combination of small fees and ceilings,
\* and every combination of admissible and inadmissible gas, amount and nonce
SubmissionRequests ==
    [min_adaptable_fee_per_gas : {-1, 0, 1, BASE_FEE_PER_GAS},
     max_total_fee_per_gas :
         {None, Some(0), Some(1), Some(2), Some(BASE_FEE_PER_GAS - 1),
          Some(BASE_FEE_PER_GAS), Some(2 * BASE_FEE_PER_GAS)},
     gas : {None}, amount : {None}, nonce : {0}]
    \cup [min_adaptable_fee_per_gas : {-1, 1},
          max_total_fee_per_gas : {None, Some(0)},
          gas : {None, Some(MinGas - 1), Some(MinGas)},
          amount : {None, Some(-1), Some(0)},
          nonce : {-1, 0}]

\* submit_transaction, with everything it does to the pool and the key
submit_transaction_call ==
    /\ sm_pc = "idle"
    /\ \E request \in SubmissionRequests, env \in SubmitCallEnvs :
        LET checked == check_transaction_submission_request(request)
            connect == IF env.given THEN <<>>
                       ELSE <<"create_node_connections">>
            read == IF utilities.type2 THEN <<"get_block">>
                    ELSE <<"gas_price">>
            observed == Wrapper_get_minimum_result(env.fees)
            finish(result, effects, sent) ==
                /\ sm_result' = result
                /\ sm_effects' = effects
                /\ sm_sent' = sent
                /\ sm_pc' = IF result.kind = "response" THEN "returned"
                            ELSE "raised"
        IN
        /\ sm_request' = request
        /\ sm_env' = env
        /\ IF ~utilities.has_key \/ checked # "ok"
           THEN finish(submit_transaction(request,
                                          [observed |-> 0, send |-> env.send]),
                       <<>>, NoResult)
           ELSE IF ~env.created
           THEN finish(Error(GenericError), connect, NoResult)
           ELSE IF observed.kind = "error"
           THEN finish(Error(GenericError), connect \o read, NoResult)
           ELSE IF env.build # "built"
           THEN finish(IF env.build = "ResultsNotMatching"
                       THEN Error(ResultsNotMatchingError)
                       ELSE Error(GenericError),
                       connect \o read \o <<"build_transaction">>, NoResult)
           ELSE finish(submit_transaction(request,
                                          [observed |-> observed.value,
                                           send |-> env.send]),
                       connect \o read
                       \o <<"build_transaction", "sign_transaction",
                            "send_raw_transaction">>,
                       create_transaction_parameters(request, observed.value))
    /\ UNCHANGED <<lib_vars, st_vars, utilities,
                   rs_vars, dp_vars, pl_vars, tk_vars>>

InitSubmit ==
    /\ LibIdle
    /\ StartIdle
    /\ utilities \in Adapters
    /\ ResubmitIdle
    /\ DispatchIdle
    /\ PoolIdle
    /\ TaskIdle
    /\ SubmitIdle

NextSubmit == submit_transaction_call

SpecSubmit == InitSubmit /\ [][NextSubmit]_vars

\* a maximum that takes the result of the first member
Wrapper_get_maximum_result_of_first(values) ==
    IF \E i \in DOMAIN values : ~IsSet(values[i])
    THEN Error("NodeConnectionError")
    ELSE [kind |-> "value", value |-> Get(values[1])]

\* Wrapper.get_maximum_result: values as for get_minimum_result
Wrapper_get_maximum_result(values) ==
    IF \E i \in DOMAIN values : ~IsSet(values[i])
    THEN Error("NodeConnectionError")
    ELSE [kind |-> "value",
          value |-> CHOOSE v \in {Get(values[i]) : i \in DOMAIN values} :
                        \A i \in DOMAIN values : v >= Get(values[i])]

\* the results of the members of a pool: an int, or None for a result of
\* another type
MemberResults == {None} \cup {Some(v) : v \in 0..MaxMemberResult}

\* get_minimum_result() on the wrapper of the results
Wrapper_get_minimum_result_call ==
    /\ dp_last' = [op |-> "get_minimum_result",
                   returned |-> Wrapper_get_minimum_result(dp_values)]
    /\ UNCHANGED <<lib_vars, st_vars, utilities,
                   rs_vars, pl_vars, tk_vars, sm_vars,
                   dp_pool, dp_values, dp_wrappers, dp_handles>>

\* get_maximum_result() on the wrapper of the results
Wrapper_get_maximum_result_call ==
    /\ dp_last' = [op |-> "get_maximum_result",
                   returned |-> Wrapper_get_maximum_result(dp_values)]
    /\ UNCHANGED <<lib_vars, st_vars, utilities,
                   rs_vars, pl_vars, tk_vars, sm_vars,
                   dp_pool, dp_values, dp_wrappers, dp_handles>>

\* the results of a call on a pool of 1..MaxNodes connections
InitExtremes ==
    /\ LibIdle
    /\ utilities \in {[type2 |-> TRUE, has_key |-> TRUE]}
    /\ ResubmitIdle
    /\ \E n \in 1..MaxNodes :
        /\ dp_pool = [i \in 1..n |-> i]
        /\ dp_values \in [1..n -> MemberResults]
    /\ dp_wrappers = <<>>
    /\ dp_handles = <<>>
    /\ dp_last = NoOperation
    /\ PoolIdle
    /\ TaskIdle
    /\ SubmitIdle
    /\ StartIdle

NextExtremes ==
    \/ Wrapper_get_minimum_result_call
    \/ Wrapper_get_maximum_result_call

SpecExtremes == InitExtremes /\ [][NextExtremes]_vars

\* ------------------------------------------- start_transaction_submission
\* uuid.uuid4() and str(uuid)
Uuids == {1, 2}
UuidStrings == <<"00000000-0000-4000-8000-000000000001", "00000000-0000-4000-8000-000000000002">>
uuid_str(internal_transaction_id) ==
    UuidStrings[internal_transaction_id]

\* a validation that leaves out blocks_until_resubmission
check_transaction_submission_start_request_without_blocks(request) ==
    IF ~utilities.celery_tasks_enabled THEN GenericError
    ELSE IF request.adaptable_fee_increase_factor
            < MIN_ADAPTABLE_FEE_INCREASE_FACTOR
    THEN GenericError
    ELSE "ok"

\* the checks start_transaction_submission makes before it submits
check_transaction_submission_start_request(request) ==
    IF ~utilities.celery_tasks_enabled THEN GenericError
    ELSE IF request.blocks_until_resubmission <= 0 THEN GenericError
    ELSE IF request.adaptable_fee_increase_factor
            < MIN_ADAPTABLE_FEE_INCREASE_FACTOR
    THEN GenericError
    ELSE "ok"

\* _transaction_resubmission_task.apply_async as
\* create_transaction_resubmission_task calls it
apply_async(request, response, internal_transaction_id) ==
    [call |-> "apply_async",
     task_id |-> uuid_str(internal_transaction_id),
     args |-> create_transaction_resubmission_task(request, response),
     countdown |-> utilities.average_block_time
                   * request.blocks_until_resubmission]

\* a start that resubmits after every error of the first submission
resubmitted_after_any_error(first) == first.kind = "error"

\* except TransactionUnderpricedError
resubmitted_after(first) ==
    first.kind = "error" /\ first.error = TransactionUnderpricedError

\* an error of the task creation that carries the request only
task_creation_error_without_transaction_id(request, response) ==
    [kind |-> "error", error |-> GenericError, request |-> request]

\* self._create_error('unable to create a transaction resubmission task',
\* request=request, transaction_id=response.transaction_id)
task_creation_error(request, response) ==
    [kind |-> "error", error |-> GenericError, request |-> request,
     transaction_id |-> response.transaction_id]

\* start_transaction_submission: env is what the nodes answer to the
\* submission, envs what they answer to the submissions of the resubmission,
\* created tells whether Celery takes the task, internal_transaction_id is
\* what uuid4 gives
start_transaction_submission(request, env, envs, created, internal_transaction_id) ==
    LET checked == check_transaction_submission_start_request(request)
    IN
    IF checked # "ok"
    THEN [result |-> Error(checked), effects |-> <<>>, tasks |-> <<>>]
    ELSE
    LET first == submit_transaction(request, env)
        submitted == <<[call |-> "submit_transaction", request |-> request,
                        response |-> first]>>
    IN
    IF first.kind = "error" /\ ~resubmitted_after(first)
    THEN [result |-> first, effects |-> submitted, tasks |-> <<>>]
    ELSE
    LET response == IF first.kind = "error"
                    THEN resubmit_transaction(request, envs) ELSE first
        effects ==
            IF first.kind = "error"
            THEN Append(submitted,
                        [call |-> "resubmit_transaction",
                         request |-> request, response |-> response])
            ELSE submitted
    IN
    IF response.kind # "response"
    THEN [result |-> response, effects |-> effects, tasks |-> <<>>]
    ELSE
    LET task == apply_async(request, response, internal_transaction_id)
    IN  IF created
        THEN [result |-> [kind |-> "value",
                          internal_transaction_id |->
                              internal_transaction_id],
              effects |-> Append(effects, task), tasks |-> <<task>>]
        ELSE [result |-> task_creation_error(request, response),
              effects |-> Append(effects, task), tasks |-> <<>>]

\* the adapters start_transaction_submission is called on
StartAdapters ==
    [type2 : BOOLEAN, has_key : BOOLEAN, celery_tasks_enabled : BOOLEAN,
     average_block_time : {2}]

\* the requests start_transaction_submission is called with
StartCallRequests ==
    [min_adaptable_fee_per_gas : 0..MaxStartFee,
     max_total_fee_per_gas : {None} \cup {Some(c) : c \in 0..MaxStartFee},
     adaptable_fee_increase_factor :
         {1100, MIN_ADAPTABLE_FEE_INCREASE_FACTOR},
     gas : {None, Some(MinGas - 1)},
     amount : {None},
     nonce : {0},
     versioned_contract_abi : {[contract_abi |-> "PANTOS_HUB",
                                version |-> <<1, 0, 0>>]},
     blocks_until_resubmission : {-1, 0, 1, 3}]

\* what the nodes answer to one submission
StartSubmitEnvs ==
    [observed : {0},
     send : {[kind |-> "accepted", msg |-> {}],
             [kind |-> "ValueError", msg |-> {UnderpricedMessage}],
             [kind |-> "ValueError", msg |-> {"nonce too low"}],
             [kind |-> "Exception", msg |-> {}]}]

\* the answers the nodes give to the submissions of the resubmission: as
\* many as it makes
StartEnvs(request, env) ==
    IF check_transaction_submission_start_request(request) = "ok"
       /\ resubmitted_after(submit_transaction(request, env))
    THEN {envs \in SeqsUpTo(StartSubmitEnvs, 1, MaxStartUnderpriced + 1) :
            /\ resubmit_transaction(request, envs).kind # "unanswered"
            /\ Len(envs) > 1 =>
                resubmit_transaction(request,
                                     SubSeq(envs, 1, Len(envs) - 1)).kind
                = "unanswered"}
    ELSE {<<>>}

\* start_transaction_submission is called
start_transaction_submission_call ==
    /\ st_pc = "idle"
    /\ rs_pc = "idle"
    /\ \E request \in StartCallRequests :
       \E env \in StartSubmitEnvs :
       \E envs \in StartEnvs(request, env) :
       \E created \in BOOLEAN :
       \E internal_transaction_id \in Uuids :
       \E done \in {start_transaction_submission(request, env, envs, created, internal_transaction_id)} :
        /\ st_request' = request
        /\ st_effects' = done.effects
        /\ st_tasks' = done.tasks
        /\ st_result' = done.result
        /\ st_pc' = IF done.result.kind = "error" THEN "raised"
                    ELSE "returned"
    /\ UNCHANGED <<lib_vars, utilities, rs_vars, dp_vars, pl_vars, tk_vars,
                   sm_vars>>

\* resubmit_transaction is called on an adapter that has not started a
\* submission
resubmit_transaction_alone == st_pc = "idle" /\ NextResubmit

InitStart ==
    /\ LibIdle
    /\ utilities \in StartAdapters
    /\ ResubmitIdle
    /\ DispatchIdle
    /\ PoolIdle
    /\ TaskIdle
    /\ SubmitIdle
    /\ StartIdle

NextStart == start_transaction_submission_call \/ resubmit_transaction_alone

SpecStart == InitStart /\ [][NextStart]_vars

\* ------------------------------------------------------- load_contract_abi
\* the contract ABIs the adapter is asked for, and the files there can be
\* in the packages of the versions
AbiKinds == {"PANTOS_HUB", "PANTOS_TOKEN"}
AbiResources == AbiKinds \X Versions

\* what json.load gives for the file of a contract ABI in the package of a
\* version
loaded_contract_abi(contract_abi, version) ==
    [file |-> contract_abi, package |-> version]

\* a loader that reads the file at every call
load_contract_abi_uncached(loaded, resources, versioned_contract_abi) ==
    LET contract_abi == versioned_contract_abi.contract_abi
        version == versioned_contract_abi.version
    IN  IF <<contract_abi, version>> \in resources
        THEN [returned |-> [kind |-> "value",
                            value |-> loaded_contract_abi(contract_abi,
                                                          version)],
              read |-> TRUE,
              loaded |-> [c \in DOMAIN loaded \cup {contract_abi} |->
                             IF c = contract_abi
                             THEN loaded_contract_abi(contract_abi, version)
                             ELSE loaded[c]]]
        ELSE [returned |-> Error(GenericError), read |-> TRUE,
              loaded |-> loaded]

\* load_contract_abi: loaded is __loaded_contract_abis, resources the files
\* that can be opened and parsed; read tells whether a file was opened
load_contract_abi(loaded, resources, versioned_contract_abi) ==
    LET contract_abi == versioned_contract_abi.contract_abi
        version == versioned_contract_abi.version
    IN  IF contract_abi \in DOMAIN loaded
        THEN [returned |-> [kind |-> "value", value |-> loaded[contract_abi]],
              read |-> FALSE, loaded |-> loaded]
        ELSE IF <<contract_abi, version>> \in resources
        THEN [returned |-> [kind |-> "value",
                            value |-> loaded_contract_abi(contract_abi,
                                                          version)],
              read |-> TRUE,
              loaded |-> [c \in DOMAIN loaded \cup {contract_abi} |->
                             IF c = contract_abi
                             THEN loaded_contract_abi(contract_abi, version)
                             ELSE loaded[c]]]
        ELSE [returned |-> Error(GenericError), read |-> TRUE,
              loaded |-> loaded]

\* load_contract_abi is called
load_contract_abi_call ==
    /\ Len(ab_log) < MaxLoads
    /\ \E contract_abi \in AbiKinds, version \in Versions :
       \E done \in {load_contract_abi(ab_loaded, ab_resources, [contract_abi |-> contract_abi, version |-> version])} :
        /\ ab_loaded' = done.loaded
        /\ ab_log' = Append(ab_log,
                            [contract_abi |-> contract_abi,
                             version |-> version,
                             returned |-> done.returned,
                             read |-> done.read,
                             before |-> ab_loaded,
                             loaded |-> done.loaded])
    /\ UNCHANGED <<utilities, rs_vars, dp_vars, pl_vars, tk_vars, sm_vars,
                   st_vars, more_vars, fc_vars, hl_vars, ab_resources>>

\* a new adapter: no contract ABI is loaded
InitAbi ==
    /\ MoreIdle
    /\ utilities \in {[type2 |-> TRUE, has_key |-> TRUE]}
    /\ ResubmitIdle
    /\ DispatchIdle
    /\ PoolIdle
    /\ TaskIdle
    /\ SubmitIdle
    /\ StartIdle
    /\ FactoryIdle
    /\ HealthIdle
    /\ ab_resources \in SUBSET AbiResources
    /\ ab_loaded = <<>>
    /\ ab_log = <<>>

NextAbi == load_contract_abi_call

SpecAbi == InitAbi /\ [][NextAbi]_vars

\* ----------------------------------------------------- adapter registry
\* the chains of the model, and _blockchain_utilities_classes: the adapter
\* class find_subclasses gives for each
Blockchains == {"ETHEREUM", "BNB_CHAIN", "SOLANA"}
blockchain_utilities_classes ==
    [ETHEREUM |-> "EthereumUtilities", BNB_CHAIN |-> "BnbChainUtilities",
     SOLANA |-> "SolanaUtilities"]

\* an initialization that forgets the adapters of the other chains
initialize_blockchain_utilities_alone(registry, blockchain, constructed, serial) ==
    IF constructed
    THEN [b \in {blockchain} |->
             [class |-> blockchain_utilities_classes[b], serial |-> serial]]
    ELSE registry

\* initialize_blockchain_utilities: registry is _blockchain_utilities,
\* constructed tells whether the constructor of the adapter class returns
\* an instance (it raises otherwise), serial tells the instances apart
initialize_blockchain_utilities(registry, blockchain, constructed, serial) ==
    IF constructed
    THEN [b \in DOMAIN registry \cup {blockchain} |->
             IF b = blockchain
             THEN [class |-> blockchain_utilities_classes[b],
                   serial |-> serial]
             ELSE registry[b]]
    ELSE registry

\* get_blockchain_utilities
get_blockchain_utilities(registry, blockchain) ==
    IF blockchain \in DOMAIN registry
    THEN [kind |-> "value", value |-> registry[blockchain]]
    ELSE Error("NotInitializedError")

\* initialize_blockchain_utilities is called
initialize_blockchain_utilities_call ==
    /\ Len(fc_log) < MaxInitializations
    /\ \E blockchain \in Blockchains, constructed \in BOOLEAN :
        /\ fc_utilities' =
             initialize_blockchain_utilities(fc_utilities, blockchain,
                                             constructed, Len(fc_log) + 1)
        /\ fc_log' = Append(fc_log, [blockchain |-> blockchain,
                                     constructed |-> constructed,
                                     serial |-> Len(fc_log) + 1])
    /\ UNCHANGED <<utilities, rs_vars, dp_vars, pl_vars, tk_vars, sm_vars,
                   st_vars, more_vars, ab_vars, hl_vars, fc_last>>

\* get_blockchain_utilities is called
get_blockchain_utilities_call ==
    /\ \E blockchain \in Blockchains :
        fc_last' = [op |-> "get_blockchain_utilities",
                    blockchain |-> blockchain,
                    initializations |-> Len(fc_log),
                    returned |-> get_blockchain_utilities(fc_utilities,
                                                          blockchain)]
    /\ UNCHANGED <<utilities, rs_vars, dp_vars, pl_vars, tk_vars, sm_vars,
                   st_vars, more_vars, ab_vars, hl_vars, fc_utilities, fc_log>>

\* the factory module after its import
InitFactory ==
    /\ MoreIdle
    /\ utilities \in {[type2 |-> TRUE, has_key |-> TRUE]}
    /\ ResubmitIdle
    /\ DispatchIdle
    /\ PoolIdle
    /\ TaskIdle
    /\ SubmitIdle
    /\ StartIdle
    /\ AbiIdle
    /\ HealthIdle
    /\ fc_utilities = <<>>
    /\ fc_log = <<>>
    /\ fc_last = NoOperation

NextFactory ==
    \/ initialize_blockchain_utilities_call
    \/ get_blockchain_utilities_call

SpecFactory == InitFactory /\ [][NextFactory]_vars

\* ------------------------------------------------------------ health probe
GENERAL_RPC_ERROR_MESSAGE == "unreachable"

\* the node URLs a chain can be registered with: the first n of these
HealthUrls ==
    <<[netloc |-> "h1", path |-> "/a"], [netloc |-> "h2", path |-> "/a"],
      [netloc |-> "h1", path |-> "/b"]>>

\* get_unhealthy_nodes of the adapter class: unreachable are the positions
\* of the URLs no connection can be made to; the EVM adapters list them, the
\* adapter of Solana raises NotImplementedError
get_unhealthy_nodes(class, blockchain_nodes, unreachable) ==
    IF class = "SolanaUtilities" THEN Error("NotImplementedError")
    ELSE [kind |-> "value",
          value |-> [i \in 1..Cardinality(unreachable) |->
                        LET position ==
                                CHOOSE p \in unreachable :
                                    Cardinality({q \in unreachable : q < p})
                                    = i - 1
                        IN  [node_domain |-> blockchain_nodes[position].netloc,
                             status |-> GENERAL_RPC_ERROR_MESSAGE]]]

\* an entry that counts every node as healthy
NodesHealth_all_healthy(blockchain_nodes, unhealthy_nodes) ==
    [healthy_total |-> Len(blockchain_nodes),
     unhealthy_total |-> Len(unhealthy_nodes),
     unhealthy_nodes |-> unhealthy_nodes]

\* the entry check_blockchain_nodes_health makes for a chain
NodesHealth(blockchain_nodes, unhealthy_nodes) ==
    [healthy_total |-> Len(blockchain_nodes) - Len(unhealthy_nodes),
     unhealthy_total |-> Len(unhealthy_nodes),
     unhealthy_nodes |-> unhealthy_nodes]

\* check_blockchain_nodes_health is called: the probes are handed to the
\* executor, each with the adapter of its chain
check_blockchain_nodes_health_call ==
    /\ hl_pc = "idle"
    /\ hl_health' = <<>>
    /\ IF DOMAIN hl_nodes = {}
       THEN /\ hl_pc' = "raised"
            /\ hl_result' = Error("NotInitializedError")
            /\ hl_pending' = {}
       ELSE IF \E blockchain \in DOMAIN hl_nodes :
                 get_blockchain_utilities(fc_utilities, blockchain).kind
                 = "error"
       THEN /\ hl_pc' = "raised"
            /\ hl_result' = Error("NotInitializedError")
            /\ hl_pending' = {}
       ELSE /\ hl_pc' = "running"
            /\ hl_result' = NoResult
            /\ hl_pending' = DOMAIN hl_nodes
    /\ UNCHANGED <<utilities, rs_vars, dp_vars, pl_vars, tk_vars, sm_vars,
                   st_vars, more_vars, ab_vars, fc_vars, hl_nodes>>

\* as_completed gives the probe that completes next, and its result is
\* entered; after the last probe the dictionary is returned
check_blockchain_nodes_health_completed ==
    /\ hl_pc = "running"
    /\ \E blockchain \in hl_pending :
       \E unreachable \in SUBSET (1..Len(hl_nodes[blockchain])) :
       \E unhealthy_nodes \in {get_unhealthy_nodes(fc_utilities[blockchain].class, hl_nodes[blockchain], unreachable)} :
        IF unhealthy_nodes.kind = "error"
        THEN /\ hl_pc' = "raised"
             /\ hl_result' = unhealthy_nodes
             /\ hl_pending' = hl_pending \ {blockchain}
             /\ UNCHANGED hl_health
        ELSE LET nodes_health ==
                     Append(hl_health,
                            [blockchain |-> blockchain,
                             reported |-> unhealthy_nodes.value,
                             health |->
                                 NodesHealth(hl_nodes[blockchain],
                                             unhealthy_nodes.value)])
             IN  /\ hl_health' = nodes_health
                 /\ hl_pending' = hl_pending \ {blockchain}
                 /\ IF hl_pending = {blockchain}
                    THEN /\ hl_pc' = "returned"
                         /\ hl_result' =
                              [kind |-> "value",
                               value |->
                                   [b \in {nodes_health[i].blockchain :
                                              i \in DOMAIN nodes_health} |->
                                       nodes_health[
                                           CHOOSE i \in DOMAIN nodes_health :
                                               nodes_health[i].blockchain = b
                                       ].health]]
                    ELSE /\ hl_pc' = "running"
                         /\ hl_result' = NoResult
    /\ UNCHANGED <<utilities, rs_vars, dp_vars, pl_vars, tk_vars, sm_vars,
                   st_vars, more_vars, ab_vars, fc_vars, hl_nodes>>

\* the registries initialize_blockchain_nodes and
\* initialize_blockchain_utilities can have made
HealthRegistries ==
    UNION {[chains -> {SubSeq(HealthUrls, 1, n) : n \in 0..MaxHealthUrls}] :
              chains \in SUBSET Blockchains}
AdapterRegistries ==
    UNION {{[b \in chains |-> [class |-> blockchain_utilities_classes[b],
                               serial |-> 1]]} :
              chains \in SUBSET Blockchains}

InitHealth ==
    /\ MoreIdle
    /\ utilities \in {[type2 |-> TRUE, has_key |-> TRUE]}
    /\ ResubmitIdle
    /\ DispatchIdle
    /\ PoolIdle
    /\ TaskIdle
    /\ SubmitIdle
    /\ StartIdle
    /\ AbiIdle
    /\ fc_utilities \in AdapterRegistries
    /\ fc_log = <<>>
    /\ fc_last = NoOperation
    /\ hl_nodes \in HealthRegistries
    /\ hl_pc = "idle"
    /\ hl_pending = {}
    /\ hl_health = <<>>
    /\ hl_result = NoResult

NextHealth ==
    \/ check_blockchain_nodes_health_call
    \/ check_blockchain_nodes_health_completed

SpecHealth == InitHealth /\ [][NextHealth]_vars

\* --------------------------------------------------- read_transaction_status
\* what a member of the pool answers to get_transaction_receipt: it raises
\* TransactionNotFound, it raises something else, or it gives a receipt (of
\* the transaction asked for or of another)
Receipts ==
    [kind : {"receipt"}, hash_matches : BOOLEAN,
     blockNumber : {None} \cup {Some(n) : n \in 0..MaxBlockNumber},
     status : {0, 1, 2}]
ReceiptAnswers ==
    {Error("TransactionNotFound"), Error("Exception")} \cup Receipts

\* what a member answers to get_block_number: a number, or it raises
BlockNumberAnswers == {None} \cup {Some(n) : n \in 0..MaxBlockNumber}

\* Wrapper.__call__ and Wrapper.get on the answers of the members: the
\* first member that raises ends the call, results that differ give
\* ResultsNotMatchingError
Wrapper_call_get(answers) ==
    LET raising == {i \in DOMAIN answers : answers[i].kind = "error"}
    IN  IF raising # {}
        THEN answers[CHOOSE i \in raising : \A j \in raising : i <= j]
        ELSE IF \A i \in DOMAIN answers : answers[i] = answers[1]
        THEN [kind |-> "value", value |-> answers[1]]
        ELSE Error(ResultsNotMatchingError)

\* a reading that compares the confirmations of a receipt below the
\* current block with the required ones
read_transaction_status_unasserted(env) ==
    IF ~env.created THEN Error(GenericError)
    ELSE LET transaction_receipt == Wrapper_call_get(env.receipts) IN
         IF transaction_receipt = Error("TransactionNotFound")
         THEN [kind |-> "status", status |-> UNINCLUDED]
         ELSE IF transaction_receipt = Error(ResultsNotMatchingError)
         THEN Error(ResultsNotMatchingError)
         ELSE IF transaction_receipt.kind = "error" THEN Error(GenericError)
         ELSE IF ~transaction_receipt.value.hash_matches
         THEN Error(GenericError)
         ELSE IF ~IsSet(transaction_receipt.value.blockNumber)
         THEN [kind |-> "status", status |-> UNINCLUDED]
         ELSE LET current_block_number ==
                      Wrapper_get_minimum_result(env.block_numbers)
              IN  IF current_block_number.kind = "error"
                  THEN Error(GenericError)
                  ELSE LET confirmations ==
                               current_block_number.value
                               - Get(transaction_receipt.value.blockNumber)
                       IN  IF confirmations
                              < env.required_transaction_confirmations
                           THEN [kind |-> "status", status |-> UNCONFIRMED]
                           ELSE IF transaction_receipt.value.status # 1
                           THEN [kind |-> "status", status |-> REVERTED]
                           ELSE [kind |-> "status", status |-> CONFIRMED]

\* EthereumUtilities.read_transaction_status
read_transaction_status(env) ==
    IF ~env.created THEN Error(GenericError)
    ELSE LET transaction_receipt == Wrapper_call_get(env.receipts) IN
         IF transaction_receipt = Error("TransactionNotFound")
         THEN [kind |-> "status", status |-> UNINCLUDED]
         ELSE IF transaction_receipt = Error(ResultsNotMatchingError)
         THEN Error(ResultsNotMatchingError)
         ELSE IF transaction_receipt.kind = "error" THEN Error(GenericError)
         ELSE IF ~transaction_receipt.value.hash_matches
         THEN Error(GenericError)
         ELSE IF ~IsSet(transaction_receipt.value.blockNumber)
         THEN [kind |-> "status", status |-> UNINCLUDED]
         ELSE LET current_block_number ==
                      Wrapper_get_minimum_result(env.block_numbers)
              IN  IF current_block_number.kind = "error"
                  THEN Error(GenericError)
                  ELSE LET confirmations ==
                               current_block_number.value
                               - Get(transaction_receipt.value.blockNumber)
                       IN  IF confirmations < 0 THEN Error(GenericError)
                           ELSE IF confirmations
                                   < env.required_transaction_confirmations
                           THEN [kind |-> "status", status |-> UNCONFIRMED]
                           ELSE IF transaction_receipt.value.status # 1
                           THEN [kind |-> "status", status |-> REVERTED]
                           ELSE [kind |-> "status", status |-> CONFIRMED]

\* what the nodes answer during one call of read_transaction_status:
\* whether the caller gives the pool, whether create_node_connections
\* succeeds, the receipt and the block number of every member, and the
\* confirmations the adapter requires. Answers the call never asks for have
\* one fixed value.
ReadEnvs ==
    {env \in [given : BOOLEAN, created : BOOLEAN,
              required_transaction_confirmations :
                  0..MaxRequiredConfirmations,
              receipts : SeqsUpTo(ReceiptAnswers, 1, MaxReadNodes),
              block_numbers : SeqsUpTo(BlockNumberAnswers, 1, MaxReadNodes)] :
        /\ env.given => env.created
        /\ Len(env.receipts) = Len(env.block_numbers)
        /\ ~env.created
           => /\ env.receipts = <<Error("Exception")>>
              /\ env.block_numbers = <<None>>
        /\ (\/ Wrapper_call_get(env.receipts).kind # "value"
            \/ ~Wrapper_call_get(env.receipts).value.hash_matches
            \/ ~IsSet(Wrapper_call_get(env.receipts).value.blockNumber))
           => \A i \in DOMAIN env.block_numbers :
                  env.block_numbers[i] = None}

read_transaction_status_call ==
    /\ rd_pc = "idle"
    /\ \E env \in ReadEnvs :
       \E result \in {read_transaction_status(env)} :
        /\ rd_env' = env
        /\ rd_result' = result
        /\ rd_pc' = IF result.kind = "status" THEN "returned" ELSE "raised"
    /\ UNCHANGED <<utilities, rs_vars, dp_vars, pl_vars, tk_vars, sm_vars,
                   st_vars, ab_vars, fc_vars, hl_vars, dt_vars, ch_vars>>

InitRead ==
    /\ utilities \in {[type2 |-> TRUE, has_key |-> TRUE]}
    /\ ResubmitIdle
    /\ DispatchIdle
    /\ PoolIdle
    /\ TaskIdle
    /\ SubmitIdle
    /\ StartIdle
    /\ AbiIdle
    /\ FactoryIdle
    /\ HealthIdle
    /\ ReadIdle
    /\ DependentIdle
    /\ ChainIdle

NextRead == read_transaction_status_call

SpecRead == InitRead /\ [][NextRead]_vars

\* ------------------------------------------ the task under every adapter
\* the configurations BlockchainUtilities.__init__ accepts: an average
\* block time above 0, required transaction confirmations of 0 or more
ValidTaskConfigs ==
    [average_block_time : {1, 2},
     required_transaction_confirmations : 0..MaxRequiredConfirmations,
     celery_tasks_enabled : {TRUE}]

\* requests whose fee is at the ceiling, or one increase below it
CeilingRequests ==
    [min_adaptable_fee_per_gas : {MaxTaskFee - 1, MaxTaskFee},
     max_total_fee_per_gas : {Some(MaxTaskFee)},
     adaptable_fee_increase_factor : {MIN_ADAPTABLE_FEE_INCREASE_FACTOR},
     gas : {None},
     amount : {None},
     nonce : {0},
     versioned_contract_abi : {[contract_abi |-> "PANTOS_HUB",
                                version |-> <<1, 0, 0>>]},
     blocks_until_resubmission : {3}]

\* the task start_transaction_submission has created on an adapter of any
\* valid configuration
InitTaskDelays ==
    /\ LibIdle
    /\ StartIdle
    /\ utilities \in {[type2 |-> TRUE, has_key |-> TRUE]}
    /\ ResubmitIdle
    /\ DispatchIdle
    /\ PoolIdle
    /\ SubmitIdle
    /\ tk_config \in ValidTaskConfigs
    /\ \E request \in CeilingRequests :
        LET response ==
                submit_transaction(request,
                                   [observed |-> 0,
                                    send |-> [kind |-> "accepted",
                                              msg |-> {}]])
        IN  /\ response.kind = "response"
            /\ tk_args = create_transaction_resubmission_task(request,
                                                              response)
            /\ tk_countdown = Some(tk_config.average_block_time
                                   * request.blocks_until_resubmission)
            /\ tk_known = response.transaction_id
    /\ tk_created = tk_args
    /\ tk_state = "PENDING"
    /\ tk_retries = 0
    /\ tk_result = NoResult
    /\ tk_read = [activation |-> 0, outcome |-> NoResult, retries |-> 0,
                   args |-> NoResult, engine |-> <<>>, retry |-> None]
    /\ tk_id \in {1}
    /\ tk_poll = NoResult

NextTaskDelays == transaction_resubmission_task_run

SpecTaskDelays == InitTaskDelays /\ [][NextTaskDelays]_vars

\* ------------------------------------------- one lifecycle and its chain
\* the requests resubmit_transaction hands to submit_transaction for the
\* answers envs, in order
RECURSIVE resubmit_transaction_loop_calls(_, _)
resubmit_transaction_loop_calls(request, envs) ==
    IF envs = <<>> THEN <<>>
    ELSE LET next == resubmit_iteration(request, <<>>, <<>>, Head(envs))
         IN  IF next.pc = "loop"
             THEN next.calls
                  \o resubmit_transaction_loop_calls(next.request, Tail(envs))
             ELSE next.calls

resubmit_transaction_calls(request, envs) ==
    IF resubmit_transaction_valid(request)
    THEN resubmit_transaction_loop_calls(request, envs)
    ELSE <<>>

\* what the node answers to eth.get_transaction_receipt and to
\* get_block_number when the chain is block: the receipt of the included
\* transaction and TransactionNotFound for any other; the transaction is
\* included in block 0 and the current block is its confirmations
ChainReadEnv(transaction_id, block, config) ==
    [given |-> FALSE, created |-> TRUE,
     required_transaction_confirmations |->
         config.required_transaction_confirmations,
     receipts |->
         IF IsSet(block) /\ Get(block).transaction_id = transaction_id
         THEN <<[kind |-> "receipt", hash_matches |-> TRUE,
                 blockNumber |-> Some(0), status |-> Get(block).status]>>
         ELSE <<Error("TransactionNotFound")>>,
     block_numbers |->
         IF IsSet(block) /\ Get(block).transaction_id = transaction_id
         THEN <<Some(Get(block).confirmations)>>
         ELSE <<None>>]

\* the fees the nodes observe (base fee per gas or gas price)
LifecycleObservedFees == {0, 2}

\* what the node answers to eth.send_raw_transaction: once a transaction of
\* the nonce is included the nonce is too low, before that the transaction
\* is accepted or underpriced
ChainSubmitEnvs(block) ==
    IF IsSet(block)
    THEN [observed : {0},
          send : {[kind |-> "ValueError", msg |-> {"nonce too low"}]}]
    ELSE [observed : LifecycleObservedFees,
          send : {[kind |-> "accepted", msg |-> {}],
                  [kind |-> "ValueError", msg |-> {UnderpricedMessage}]}]

\* the answers to the submissions of one activation: as many as
\* resubmit_transaction uses
ChainTaskEnvs(args, read, block) ==
    IF read.kind = "status" /\ read.status = UNINCLUDED
    THEN {envs \in SeqsUpTo(ChainSubmitEnvs(block), 1,
                            MaxTaskUnderpriced + 1) :
            /\ resubmit_transaction(from_dict(args.request_dict),
                                    envs).kind # "unanswered"
            /\ Len(envs) > 1 =>
                resubmit_transaction(from_dict(args.request_dict),
                                     SubSeq(envs, 1, Len(envs) - 1)).kind
                = "unanswered"}
    ELSE {<<>>}

\* the worker runs the task against the chain
transaction_resubmission_task_on_chain ==
    /\ tk_state \in {"PENDING", "RETRY"}
    /\ \E read \in {read_transaction_status(
                        ChainReadEnv(tk_args.transaction_id, ch_block,
                                     tk_config))} :
       \E envs \in ChainTaskEnvs(tk_args, read, ch_block) :
       \E next \in {transaction_resubmission_task(tk_retries, tk_args,
                                                  tk_config, read, envs)} :
        /\ tk_state' = next.state
        /\ tk_retries' = next.retries
        /\ tk_args' = next.args
        /\ tk_countdown' = next.countdown
        /\ tk_result' = next.result
        /\ tk_read' = [activation |-> tk_retries + 1, outcome |-> read,
                        retries |-> tk_retries, args |-> tk_args,
                        engine |-> next.engine, retry |-> next.retry]
        /\ tk_known' =
             IF next.engine # <<>> /\ next.engine[1].response.kind = "response"
             THEN next.engine[1].response.transaction_id
             ELSE tk_known
        /\ tk_poll' = NoResult
        /\ \E calls \in {IF next.engine = <<>> THEN <<>>
                         ELSE resubmit_transaction_calls(
                                  next.engine[1].request, envs)} :
            /\ ch_attempts' =
                 ch_attempts \cup {calls[i] : i \in DOMAIN calls}
            /\ ch_submitted' =
                 IF next.engine # <<>>
                    /\ next.engine[1].response.kind = "response"
                 THEN Append(ch_submitted,
                             [request |-> calls[Len(calls)],
                              transaction_id |->
                                  next.engine[1].response.transaction_id])
                 ELSE ch_submitted
    /\ UNCHANGED <<utilities, rs_vars, dp_vars, pl_vars, sm_vars, st_vars,
                   ab_vars, fc_vars, hl_vars, rd_vars, dt_vars,
                   tk_config, tk_created, tk_id, ch_block>>

\* a block includes one of the transactions the nodes have accepted; its
\* execution succeeds (status 1) or fails (status 0)
chain_includes_transaction ==
    /\ ch_block = None
    /\ \E i \in DOMAIN ch_submitted, status \in {0, 1} :
        ch_block' = Some([transaction_id |-> ch_submitted[i].transaction_id,
                          status |-> status, confirmations |-> 0])
    /\ UNCHANGED <<utilities, rs_vars, dp_vars, pl_vars, sm_vars, st_vars,
                   ab_vars, fc_vars, hl_vars, rd_vars, dt_vars, tk_vars,
                   ch_submitted, ch_attempts>>

\* the chain grows by one block on top of the included transaction
chain_adds_block ==
    /\ IsSet(ch_block)
    /\ Get(ch_block).confirmations
       < tk_config.required_transaction_confirmations
    /\ ch_block' = Some([Get(ch_block) EXCEPT !.confirmations = @ + 1])
    /\ UNCHANGED <<utilities, rs_vars, dp_vars, pl_vars, sm_vars, st_vars,
                   ab_vars, fc_vars, hl_vars, rd_vars, dt_vars, tk_vars,
                   ch_submitted, ch_attempts>>

\* the requests of the lifecycles: a ceiling is set
LifecycleRequests ==
    [contract_address : {"0xcontract"},
     function_selector : {"0xselector"},
     function_args : {<<1, TRUE>>},
     min_adaptable_fee_per_gas : {0},
     max_total_fee_per_gas : {Some(MaxTaskFee)},
     adaptable_fee_increase_factor : {MIN_ADAPTABLE_FEE_INCREASE_FACTOR},
     gas : {Some(MinGas)},
     amount : {None},
     nonce : {0},
     versioned_contract_abi : {[contract_abi |-> "PANTOS_HUB",
                                version |-> <<1, 0, 1>>]},
     blocks_until_resubmission : {3}]

\* start_transaction_submission has submitted the transaction and created
\* the task; no block includes the transaction yet
InitLifecycle ==
    /\ utilities \in [type2 : BOOLEAN, has_key : {TRUE}]
    /\ ResubmitIdle
    /\ DispatchIdle
    /\ PoolIdle
    /\ SubmitIdle
    /\ StartIdle
    /\ AbiIdle
    /\ FactoryIdle
    /\ HealthIdle
    /\ ReadIdle
    /\ DependentIdle
    /\ tk_config \in TaskConfigs
    /\ \E request \in LifecycleRequests, observed \in LifecycleObservedFees :
        LET response ==
                submit_transaction(request,
                                   [observed |-> observed,
                                    send |-> [kind |-> "accepted",
                                              msg |-> {}]])
        IN  /\ response.kind = "response"
            /\ tk_args = create_transaction_resubmission_task(request,
                                                              response)
            /\ tk_countdown = Some(tk_config.average_block_time
                                   * request.blocks_until_resubmission)
            /\ tk_known = response.transaction_id
            /\ ch_submitted = <<[request |-> request,
                                 transaction_id |->
                                     response.transaction_id]>>
            /\ ch_attempts = {request}
    /\ ch_block = None
    /\ tk_created = tk_args
    /\ tk_state = "PENDING"
    /\ tk_retries = 0
    /\ tk_result = NoResult
    /\ tk_read = [activation |-> 0, outcome |-> NoResult, retries |-> 0,
                   args |-> NoResult, engine |-> <<>>, retry |-> None]
    /\ tk_id \in {1}
    /\ tk_poll = NoResult

NextLifecycle ==
    \/ transaction_resubmission_task_on_chain
    \/ chain_includes_transaction
    \/ chain_adds_block

\* the worker runs a task that waits for its activation, and the chain
\* grows
SpecLifecycle ==
    /\ InitLifecycle
    /\ [][NextLifecycle]_vars
    /\ WF_vars(transaction_resubmission_task_on_chain)
    /\ WF_vars(chain_adds_block)

\* ----------------------------------------------- dependent-transaction task
\* self.retry of the dependent task, called without exc: the next
\* activation after countdown, or the failure of the task when its retries
\* are used up
dependent_retry(retries, countdown) ==
    IF retries + 1 > MAX_DEPENDENT_TRANSACTION_CHECKS_TASK_RETRIES
    THEN [state |-> "FAILURE", retries |-> retries, countdown |-> None,
          result |-> Error("MaxRetriesExceededError"),
          retry |-> Some(countdown)]
    ELSE [state |-> "RETRY", retries |-> retries + 1,
          countdown |-> Some(countdown), result |-> NoResult,
          retry |-> Some(countdown)]

\* what get_number_of_confirmations of the adapter gives for the
\* transaction of the prerequisite: the status and the number of
\* confirmations, or an error
ConfirmationOutcomes ==
    {[kind |-> "value", transaction_status |-> "CONFIRMED",
      number_of_confirmations |-> n] : n \in 0..MaxConfirmations}
    \cup {Error(GenericError), Error(ResultsNotMatchingError)}

\* a task that submits as soon as the prerequisite is confirmed
dependent_transaction_submission_task_without_wait(retries, args, status, confirmations, started) ==
    LET retried == dependent_retry(retries, args.average_block_time)
        ended(state, result, read, submitted) ==
            [state |-> state, retries |-> retries, countdown |-> None,
             result |-> result, retry |-> None,
             confirmations |-> read, started |-> submitted]
    IN
    IF status.kind = "error"
    THEN ended("FAILURE", status, None, FALSE)
    ELSE IF status.transaction_status
            \in {Some("UNCONFIRMED"), Some("UNINCLUDED")}
    THEN retried @@ [confirmations |-> None, started |-> FALSE]
    ELSE IF status.transaction_status = Some("REVERTED")
    THEN ended("SUCCESS", [kind |-> "value", value |-> FALSE], None, FALSE)
    ELSE IF status.transaction_status = Some("CONFIRMED")
    THEN IF confirmations.kind = "error"
         THEN retried @@ [confirmations |-> Some(confirmations),
                          started |-> FALSE]
         ELSE IF started.result.kind = "error"
         THEN ended("FAILURE", started.result, Some(confirmations), TRUE)
         ELSE ended("SUCCESS",
                    [kind |-> "value",
                     value |-> uuid_str(
                         started.result.internal_transaction_id)],
                    Some(confirmations), TRUE)
    ELSE retried @@ [confirmations |-> None, started |-> FALSE]

\* _dependent_transaction_submission_task: status is what
\* get_transaction_submission_status gives for the prerequisite,
\* confirmations what get_number_of_confirmations gives, started what
\* start_transaction_submission does with the request
dependent_transaction_submission_task(retries, args, status, confirmations, started) ==
    LET retried == dependent_retry(retries, args.average_block_time)
        ended(state, result, read, submitted) ==
            [state |-> state, retries |-> retries, countdown |-> None,
             result |-> result, retry |-> None,
             confirmations |-> read, started |-> submitted]
    IN
    IF status.kind = "error"
    THEN ended("FAILURE", status, None, FALSE)
    ELSE IF status.transaction_status
            \in {Some("UNCONFIRMED"), Some("UNINCLUDED")}
    THEN retried @@ [confirmations |-> None, started |-> FALSE]
    ELSE IF status.transaction_status = Some("REVERTED")
    THEN ended("SUCCESS", [kind |-> "value", value |-> FALSE], None, FALSE)
    ELSE IF status.transaction_status = Some("CONFIRMED")
    THEN IF confirmations.kind = "error"
         THEN retried @@ [confirmations |-> Some(confirmations),
                          started |-> FALSE]
         ELSE IF confirmations.number_of_confirmations >= args.blocks_to_wait
         THEN IF started.result.kind = "error"
              THEN ended("FAILURE", started.result, Some(confirmations),
                         TRUE)
              ELSE ended("SUCCESS",
                         [kind |-> "value",
                          value |-> uuid_str(
                              started.result.internal_transaction_id)],
                         Some(confirmations), TRUE)
         ELSE retried @@ [confirmations |-> Some(confirmations),
                          started |-> FALSE]
    ELSE retried @@ [confirmations |-> None, started |-> FALSE]

\* the worker runs the dependent task
dependent_transaction_submission_task_run ==
    /\ dt_state \in {"PENDING", "RETRY"}
    /\ \E status \in {get_transaction_submission_status(tk_id, tk_state, tk_result)} :
       \E confirmations \in ConfirmationOutcomes :
       \E env \in StartSubmitEnvs :
       \E envs \in StartEnvs(from_dict(dt_args.request), env) :
       \E created \in BOOLEAN :
       \E internal_transaction_id \in Uuids \ {tk_id} :
       \E started \in {start_transaction_submission(from_dict(dt_args.request), env, envs, created, internal_transaction_id)} :
       \E next \in {dependent_transaction_submission_task(dt_retries, dt_args, status, confirmations, started)} :
        /\ IsSet(next.confirmations) => Get(next.confirmations) = confirmations
        /\ ~IsSet(next.confirmations) => confirmations = Error(GenericError)
        /\ ~next.started =>
            /\ env = [observed |-> 0, send |-> Accepted]
            /\ created
        /\ dt_state' = next.state
        /\ dt_retries' = next.retries
        /\ dt_countdown' = next.countdown
        /\ dt_result' = next.result
        /\ dt_started' = IF next.started
                         THEN Append(dt_started,
                                     [request |-> from_dict(dt_args.request),
                                      result |-> started.result,
                                      effects |-> started.effects])
                         ELSE dt_started
        /\ dt_read' = [activation |-> dt_retries + 1, status |-> status,
                       confirmations |-> next.confirmations,
                       retry |-> next.retry, started |-> next.started]
    /\ UNCHANGED <<utilities, rs_vars, dp_vars, pl_vars, tk_vars, sm_vars,
                   st_vars, ab_vars, fc_vars, hl_vars, rd_vars, dt_args,
                   ch_vars>>

\* the lifecycle task of the prerequisite ends: it returns the status and
\* the id of its transaction, or it fails with an error
prerequisite_task_ends ==
    /\ tk_state = "PENDING"
    /\ dt_state \in {"PENDING", "RETRY"}
    /\ \E result \in {task_return(status, tk_known) : status \in {CONFIRMED, REVERTED}} \cup {Error(GenericError), Error("MaxRetriesExceededError")} :
        /\ tk_result' = result
        /\ tk_state' = IF result.kind = "error" THEN "FAILURE" ELSE "SUCCESS"
    /\ UNCHANGED <<utilities, rs_vars, dp_vars, pl_vars, sm_vars, st_vars,
                   lib_vars, tk_config, tk_retries, tk_args, tk_countdown,
                   tk_created, tk_read, tk_known, tk_id, tk_poll>>

\* the requests a follower submission is asked for with
DependentRequests ==
    [min_adaptable_fee_per_gas : {0},
     max_total_fee_per_gas : {None},
     adaptable_fee_increase_factor : {MIN_ADAPTABLE_FEE_INCREASE_FACTOR},
     gas : {None},
     amount : {None},
     nonce : {1},
     versioned_contract_abi : {[contract_abi |-> "PANTOS_HUB",
                                version |-> <<1, 0, 0>>]},
     blocks_until_resubmission : {0, 3}]

\* a dependent task has been handed to Celery for a prerequisite whose
\* lifecycle task has not ended
InitDependent ==
    /\ utilities \in [type2 : {TRUE}, has_key : {TRUE},
                      celery_tasks_enabled : BOOLEAN,
                      average_block_time : {2}]
    /\ ResubmitIdle
    /\ DispatchIdle
    /\ PoolIdle
    /\ SubmitIdle
    /\ StartIdle
    /\ AbiIdle
    /\ FactoryIdle
    /\ HealthIdle
    /\ ReadIdle
    /\ ChainIdle
    /\ tk_config = [average_block_time |-> utilities.average_block_time,
                    required_transaction_confirmations |-> 2,
                    celery_tasks_enabled |-> utilities.celery_tasks_enabled]
    /\ tk_state = "PENDING"
    /\ tk_retries = 0
    /\ tk_args = NoResult
    /\ tk_countdown = None
    /\ tk_result = NoResult
    /\ tk_created = NoResult
    /\ tk_read = NoResult
    /\ tk_known = "0xprerequisite"
    /\ tk_id = 1
    /\ tk_poll = NoResult
    /\ dt_state = "PENDING"
    /\ dt_retries = 0
    /\ dt_args \in [blockchain_id : {0},
                    prerequisite_internal_id : {uuid_str(tk_id)},
                    blocks_to_wait : 0..MaxConfirmations,
                    average_block_time : {2},
                    request : {to_dict(request) :
                                  request \in DependentRequests}]
    /\ dt_countdown = None
    /\ dt_result = NoResult
    /\ dt_read = [activation |-> 0, status |-> NoResult,
                  confirmations |-> None, retry |-> None,
                  started |-> FALSE]
    /\ dt_started = <<>>

NextDependent ==
    \/ dependent_transaction_submission_task_run
    \/ prerequisite_task_ends

SpecDependent == InitDependent /\ [][NextDependent]_vars

\* ======================================================= submission engine
\* the error classes an error made by _create_error is an instance of: the
\* class of the chain, alone or with a specialized class
ChainErrors ==
    {GenericError, MaxTotalFeePerGasExceededError,
     TransactionNonceTooLowError, TransactionUnderpricedError}

\* the faults of a request the generic error answers
GenericFault(request) ==
    \/ IsSet(request.gas) /\ Get(request.gas) < 21000
    \/ request.min_adaptable_fee_per_gas < 0
    \/ IsSet(request.amount) /\ Get(request.amount) < 0
    \/ request.nonce < 0

CeilingFault(request) ==
    /\ IsSet(request.max_total_fee_per_gas)
    /\ Get(request.max_total_fee_per_gas) < request.min_adaptable_fee_per_gas

\* C12: submit_transaction rejects a request with gas set below 21000, a
\* negative min adaptable fee, a negative amount or a negative nonce, and a
\* call without default private key, with the generic error of the chain,
\* and a request with a ceiling below the min adaptable fee with
\* MaxTotalFeePerGasExceeded; nothing is then done to the nodes or the key.
C12_RejectsInvalidRequests ==
    (/\ sm_pc # "idle"
     /\ \/ ~utilities.has_key
        \/ GenericFault(sm_request)
        \/ CeilingFault(sm_request))
    => /\ sm_pc = "raised"
       /\ sm_result.kind = "error"
       /\ sm_result.error \in ChainErrors
       /\ \/ /\ sm_result.error = GenericError
             /\ ~utilities.has_key \/ GenericFault(sm_request)
          \/ /\ sm_result.error = MaxTotalFeePerGasExceededError
             /\ CeilingFault(sm_request)
       /\ sm_effects = <<>>
       /\ sm_sent = NoResult

\* a negative nonce, nothing else wrong, with nodes that would accept
C12_Witness ==
    /\ sm_pc = "raised"
    /\ utilities.has_key
    /\ sm_request.nonce < 0
    /\ sm_request.min_adaptable_fee_per_gas = 1
    /\ sm_request.max_total_fee_per_gas = None
    /\ sm_request.gas = Some(MinGas)
    /\ sm_request.amount = Some(0)
    /\ sm_env.send = Accepted
    /\ sm_env.build = "built"
    /\ sm_result = Error(GenericError)
    /\ sm_effects = <<>>

\* the least of the fees the members of the pool report
LeastFee(fees) ==
    CHOOSE least \in {Get(fees[i]) : i \in DOMAIN fees} :
        \A i \in DOMAIN fees : least <= Get(fees[i])

\* the call has handed a transaction to a node
Sent == sm_pc # "idle" /\ sm_sent # NoResult

\* C13: for a type-2 submission, base is the minimum baseFeePerGas of the
\* latest block over all members of the pool, maxPriorityFeePerGas is the min
\* adaptable fee of the request (tip), maxFeePerGas is 2 * base + tip unless
\* a lower ceiling replaces it, and the adaptable fee of the response is tip.
C13_Eip1559FeeAssembly ==
    (Sent /\ utilities.type2)
    => LET base == LeastFee(sm_env.fees)
           tip == sm_request.min_adaptable_fee_per_gas
           ceiling == sm_request.max_total_fee_per_gas
       IN  /\ sm_effects[Len(sm_effects) - 3] = "get_block"
           /\ sm_sent.priority_fee_per_gas = Some(tip)
           /\ sm_sent.total_fee_per_gas
              = IF IsSet(ceiling) /\ Get(ceiling) < 2 * base + tip
                THEN Get(ceiling) ELSE 2 * base + tip
           /\ sm_pc = "returned" => sm_result.adaptable_fee_per_gas = tip

\* two members with different base fees, the lower one second, no ceiling
C13_Witness ==
    /\ Sent
    /\ utilities.type2
    /\ sm_pc = "returned"
    /\ sm_env.fees = <<Some(BASE_FEE_PER_GAS), Some(1)>>
    /\ sm_request.min_adaptable_fee_per_gas = 1
    /\ sm_request.max_total_fee_per_gas = None
    /\ sm_sent.total_fee_per_gas = 3

\* the total fee per gas of the transaction: maxFeePerGas or gasPrice
TotalFeeUsed == sm_sent.total_fee_per_gas

\* C14: in every transaction submit_transaction sends for a request with a
\* ceiling, the total fee per gas used (maxFeePerGas for type 2, gasPrice for
\* legacy) does not exceed the ceiling and is not below the min adaptable fee
\* of the request.
C14_FeeClamp ==
    (Sent /\ IsSet(sm_request.max_total_fee_per_gas))
    => /\ TotalFeeUsed <= Get(sm_request.max_total_fee_per_gas)
       /\ TotalFeeUsed >= sm_request.min_adaptable_fee_per_gas

\* a legacy transaction whose gas price the ceiling lowers
C14_Witness ==
    /\ Sent
    /\ ~utilities.type2
    /\ sm_request.max_total_fee_per_gas = Some(2)
    /\ sm_request.min_adaptable_fee_per_gas = 1
    /\ LeastFee(sm_env.fees) = BASE_FEE_PER_GAS
    /\ TotalFeeUsed = 2

\* a type-2 call with base fee 1e8 and tip 1e8 that nothing but the fees can
\* stop before the transaction is sent
ScenarioCall ==
    /\ sm_pc # "idle"
    /\ utilities.type2
    /\ utilities.has_key
    /\ ~GenericFault(sm_request)
    /\ sm_request.min_adaptable_fee_per_gas = BASE_FEE_PER_GAS
    /\ sm_env.created
    /\ \A i \in DOMAIN sm_env.fees : IsSet(sm_env.fees[i])
    /\ LeastFee(sm_env.fees) = BASE_FEE_PER_GAS
    /\ sm_env.build = "built"

RaisedWithoutSending(error) ==
    /\ sm_pc = "raised"
    /\ sm_result = Error(error)
    /\ sm_sent = NoResult
    /\ "send_raw_transaction" \notin Range(sm_effects)

SendFailed == Sent /\ sm_env.send.kind # "accepted"

\* what the claim makes of the message of a send error
ClassifiedByMessage(msg) ==
    IF msg \cap {"nonce too low", "invalid nonce", "ERR_INCORRECT_NONCE"} # {}
    THEN TransactionNonceTooLowError
    ELSE IF "transaction underpriced" \in msg
    THEN TransactionUnderpricedError
    ELSE GenericError

\* C16 as claimed: a send error whose message contains 'nonce too low',
\* 'invalid nonce' or 'ERR_INCORRECT_NONCE' becomes TransactionNonceTooLow
\* (checked first), one containing 'transaction underpriced' becomes
\* TransactionUnderpriced, every other failure becomes the generic error of
\* the chain, a ResultsNotMatching error propagates unchanged, and no
\* response is returned.
C16_Original ==
    SendFailed
    => /\ sm_pc = "raised"
       /\ sm_result.kind = "error"
       /\ sm_result.error =
            IF sm_env.send.kind = "ResultsNotMatching"
            THEN ResultsNotMatchingError
            ELSE ClassifiedByMessage(sm_env.send.msg)

\* C16, amended: the message decides only for a send error of type
\* ValueError; a send error of another type becomes the generic error of the
\* chain whatever its message contains, and a ResultsNotMatching error
\* propagates unchanged; no response is returned. A failure before the send
\* becomes the generic error, or propagates if it is ResultsNotMatching.
C16_SendErrorClassification ==
    /\ SendFailed
       => /\ sm_pc = "raised"
          /\ sm_result.kind = "error"
          /\ sm_result.error =
               IF sm_env.send.kind = "ResultsNotMatching"
               THEN ResultsNotMatchingError
               ELSE IF sm_env.send.kind = "ValueError"
               THEN ClassifiedByMessage(sm_env.send.msg)
               ELSE GenericError
    /\ (sm_pc = "raised" /\ ~SendFailed /\ sm_effects # <<>>)
       => sm_result.error
          = IF sm_env.created /\ sm_env.build = "ResultsNotMatching"
            THEN ResultsNotMatchingError ELSE GenericError

\* a ValueError with both a nonce marker and the underpriced marker
C16_Witness ==
    /\ SendFailed
    /\ sm_env.send = [kind |-> "ValueError",
                      msg |-> {"invalid nonce", "transaction underpriced"}]
    /\ sm_result = Error(TransactionNonceTooLowError)

\* =================================================== resubmission engine
\* the fee of the request resubmit_transaction bumps in its i-th iteration
PreviousFee(i) ==
    IF i = 1 THEN rs_input.min_adaptable_fee_per_gas
    ELSE rs_calls[i - 1].min_adaptable_fee_per_gas

\* fee = max(1, ceil(prev * factor / 1000)), stated without the division:
\* the least integer that is >= 1 and >= prev * factor / 1000
IsBumpOf(fee, prev, factor) ==
    /\ fee >= 1
    /\ fee * 1000 >= prev * factor
    /\ fee = 1 \/ (fee - 1) * 1000 < prev * factor

\* C2: every fee handed to submit_transaction is max(1, ceil(prev * factor))
\* of the fee before it, with factor >= 1.101; the fees are strictly
\* increasing from the fee of the request (0 goes to 1), and the adaptable
\* fee of the response is above the fee of the request.
C2_FeesStrictlyIncreasing ==
    /\ \A i \in 1..Len(rs_calls) :
        /\ rs_calls[i].adaptable_fee_increase_factor
           >= MIN_ADAPTABLE_FEE_INCREASE_FACTOR
        /\ IsBumpOf(rs_calls[i].min_adaptable_fee_per_gas, PreviousFee(i),
                    rs_calls[i].adaptable_fee_increase_factor)
        /\ rs_calls[i].min_adaptable_fee_per_gas > PreviousFee(i)
        /\ PreviousFee(i) = 0 => rs_calls[i].min_adaptable_fee_per_gas = 1
    /\ rs_pc = "returned" =>
        rs_result.adaptable_fee_per_gas > rs_input.min_adaptable_fee_per_gas

C2_Witness ==
    /\ rs_pc = "returned"
    /\ Len(rs_calls) = 3
    /\ rs_input.min_adaptable_fee_per_gas = 0
    /\ rs_input.adaptable_fee_increase_factor
       = MIN_ADAPTABLE_FEE_INCREASE_FACTOR

\* C3: with a ceiling set no request above it reaches submit_transaction;
\* an iteration whose bumped fee is above the ceiling raises
\* MaxTotalFeePerGasExceeded without submitting, and with the ceiling equal
\* to the fee of the request there is no submission at all.
C3_NoSubmissionAboveCeiling ==
    /\ [](\A i \in 1..Len(rs_calls) :
            IsSet(rs_input.max_total_fee_per_gas) =>
                rs_calls[i].min_adaptable_fee_per_gas
                <= Get(rs_input.max_total_fee_per_gas))
    /\ []((/\ rs_pc \in {"loop", "returned", "raised"}
           /\ resubmit_transaction_valid(rs_input)
           /\ rs_input.max_total_fee_per_gas
              = Some(rs_input.min_adaptable_fee_per_gas))
          => rs_calls = <<>> /\ rs_pc # "returned")
    /\ [][(/\ rs_pc = "loop"
           /\ IsSet(rs_request.max_total_fee_per_gas)
           /\ bumped_min_adaptable_fee_per_gas(rs_request)
              > Get(rs_request.max_total_fee_per_gas))
          => (/\ rs_pc' = "raised"
              /\ rs_result' = Error(MaxTotalFeePerGasExceededError)
              /\ rs_calls' = rs_calls)]_vars

C3_Witness ==
    /\ rs_pc = "raised"
    /\ rs_result = Error(MaxTotalFeePerGasExceededError)
    /\ Len(rs_calls) = 2
    /\ rs_calls[2].min_adaptable_fee_per_gas
       = Get(rs_input.max_total_fee_per_gas)

\* C4: the loop goes on only after TransactionUnderpriced: every answer of
\* submit_transaction but the last is TransactionUnderpriced, so k such
\* answers and a success are k + 1 calls; the response returned is the one of
\* the last call; any other error is raised as it is, with no further call.
C4_LoopsOnlyOnUnderpriced ==
    /\ Len(rs_answers) = Len(rs_calls)
    /\ \A i \in 1..(Len(rs_answers) - 1) :
        rs_answers[i] = Error(TransactionUnderpricedError)
    /\ rs_pc = "loop" /\ rs_answers # <<>> =>
        rs_answers[Len(rs_answers)] = Error(TransactionUnderpricedError)
    /\ rs_pc = "returned" =>
        /\ rs_answers # <<>>
        /\ rs_answers[Len(rs_answers)].kind = "response"
        /\ rs_result = rs_answers[Len(rs_answers)]
        /\ rs_result.transaction_id.nonce = rs_calls[Len(rs_calls)].nonce
        /\ utilities.type2 =>
            /\ rs_result.adaptable_fee_per_gas
               = rs_calls[Len(rs_calls)].min_adaptable_fee_per_gas
            /\ rs_result.transaction_id.priority_fee_per_gas
               = Some(rs_result.adaptable_fee_per_gas)
        /\ ~utilities.type2 =>
            /\ rs_result.adaptable_fee_per_gas
               >= rs_calls[Len(rs_calls)].min_adaptable_fee_per_gas
            /\ rs_result.transaction_id.total_fee_per_gas
               = rs_result.adaptable_fee_per_gas
    /\ (/\ rs_pc = "raised"
        /\ rs_answers # <<>>
        /\ rs_answers[Len(rs_answers)] # Error(TransactionUnderpricedError))
       => rs_result = rs_answers[Len(rs_answers)]
    /\ (/\ rs_pc = "raised"
        /\ rs_answers # <<>>
        /\ rs_answers[Len(rs_answers)] = Error(TransactionUnderpricedError))
       => rs_result = Error(MaxTotalFeePerGasExceededError)

C4_Witness ==
    /\ rs_pc = "returned"
    /\ Len(rs_calls) = 3
    /\ rs_answers[2] = Error(TransactionUnderpricedError)
    /\ rs_result.adaptable_fee_per_gas
       = rs_calls[3].min_adaptable_fee_per_gas

\* exact arithmetic on naturals of any size: the digits in base 1000, the
\* lowest first, <<>> being 0
RECURSIVE Digits(_)
Digits(n) == IF n = 0 THEN <<>> ELSE <<n % 1000>> \o Digits(n \div 1000)

RECURSIVE TimesSmall(_, _, _)
TimesSmall(a, k, carry) ==
    IF a = <<>> THEN Digits(carry)
    ELSE LET t == Head(a) * k + carry
         IN  <<t % 1000>> \o TimesSmall(Tail(a), k, t \div 1000)

RECURSIVE TimesPower(_, _, _)
TimesPower(a, k, n) ==
    IF n = 0 THEN a ELSE TimesPower(TimesSmall(a, k, 0), k, n - 1)

BigLess(a, b) ==
    IF Len(a) # Len(b) THEN Len(a) < Len(b)
    ELSE \E i \in 1..Len(a) :
            a[i] < b[i] /\ \A j \in (i + 1)..Len(a) : a[j] = b[j]

\* n <= ceil(log_f(c / m)) for the factor f = factor / 1000 and m >= 1:
\* for n >= 1 this is m * f^(n - 1) < c
AtMostCeilLog(n, c, m, factor) ==
    \/ n <= 0
    \/ BigLess(TimesPower(Digits(m), factor, n - 1),
               TimesPower(Digits(c), 1000, n - 1))

FeesBoundedByCeiling ==
    \A i \in 1..Len(rs_calls) :
        rs_calls[i].min_adaptable_fee_per_gas
        <= Get(rs_input.max_total_fee_per_gas)

\* C5 as claimed: with a ceiling set the fees tried are at most the ceiling
\* and at most ceil(log_f(ceiling / max(1, prev))) fees are tried.
C5_Original ==
    (rs_pc \in {"loop", "returned", "raised"}
     /\ IsSet(rs_input.max_total_fee_per_gas)
     /\ resubmit_transaction_valid(rs_input))
    => /\ FeesBoundedByCeiling
       /\ AtMostCeilLog(Len(rs_calls), Get(rs_input.max_total_fee_per_gas),
                        Max2(1, rs_input.min_adaptable_fee_per_gas),
                        rs_input.adaptable_fee_increase_factor)

\* C5, amended: with a ceiling set the fees tried are at most the ceiling;
\* at most ceil(log_f(ceiling / max(1, prev))) fees are tried when prev >= 1,
\* and one more when prev = 0 (the step from 0 to 1 is not a multiplication).
C5_ResubmissionBound ==
    (rs_pc \in {"loop", "returned", "raised"}
     /\ IsSet(rs_input.max_total_fee_per_gas)
     /\ resubmit_transaction_valid(rs_input))
    => /\ FeesBoundedByCeiling
       /\ AtMostCeilLog(
              IF rs_input.min_adaptable_fee_per_gas = 0
              THEN Len(rs_calls) - 1 ELSE Len(rs_calls),
              Get(rs_input.max_total_fee_per_gas),
              Max2(1, rs_input.min_adaptable_fee_per_gas),
              rs_input.adaptable_fee_increase_factor)

\* the bound is reached: 1 -> 2 -> 4 under the ceiling 4 with the factor 2
C5_Witness ==
    /\ rs_pc = "raised"
    /\ rs_input.min_adaptable_fee_per_gas = 1
    /\ rs_input.adaptable_fee_increase_factor = 2000
    /\ rs_input.max_total_fee_per_gas = Some(4)
    /\ Len(rs_calls) = 2
    /\ rs_result = Error(MaxTotalFeePerGasExceededError)

\* ================================================== multi-node dispatcher
\* the reference h is the end of a chain written as one expression
Linear(h) == Continues(h)

NoWriteStep(steps) ==
    \A i \in 1..Len(steps) :
        ~(steps[i].op = "attr" /\ steps[i].arg \in TRANSACTION_METHOD_NAMES)

\* the call of a write method: the step before the call is its attribute
IsWriteCall(steps) ==
    /\ Len(steps) >= 2
    /\ steps[Len(steps)].op = "call"
    /\ steps[Len(steps) - 1].op = "attr"
    /\ steps[Len(steps) - 1].arg \in TRANSACTION_METHOD_NAMES

\* what member i of the pool gives for a chain of steps
MemberResult(i, steps) == Result([node |-> dp_pool[i], path |-> steps])

PositionalKeys == <<"0", "1", "2", "3", "4", "5">>

\* C6: get() at the end of a chain of attribute, index and non-write call
\* steps, written as one expression, returns the shared value when the
\* results of all members of the pool are equal, and otherwise raises
\* ResultsNotMatching with the result of every member under its position in
\* the pool, in pool order.
C6_GetReconciles ==
    (/\ dp_last.op = "get"
     /\ Linear(dp_last.handle)
     /\ NoWriteStep(dp_last.steps))
    => LET n == Len(dp_pool)
           member(i) == MemberResult(i, dp_last.steps)
       IN  IF \A i, j \in 1..n : PyEq(member(i), member(j))
           THEN /\ dp_last.returned.kind = "value"
                /\ \A i \in 1..n : PyEq(dp_last.returned.value, member(i))
           ELSE /\ dp_last.returned.kind = "error"
                /\ dp_last.returned.error = ResultsNotMatchingError
                /\ dp_last.returned.details
                   = [i \in 1..n |-> <<PositionalKeys[i], member(i)>>]

\* a mismatch of the third member only, after an attribute, a call and an
\* index step
C6_Witness ==
    /\ dp_last.op = "get"
    /\ Linear(dp_last.handle)
    /\ Len(dp_pool) = 3
    /\ dp_last.steps = <<Step("attr", "get_balance"), Step("call", ""),
                         Step("index", "blockNumber")>>
    /\ dp_last.returned.kind = "error"
    /\ PyEq(MemberResult(1, dp_last.steps), MemberResult(2, dp_last.steps))

\* C7: the call of a write method invokes the method on exactly one member of
\* the pool, once, invokes no other member, and returns the raw result of
\* that call, not a proxy.
C7_WriteInvokesOneMember ==
    (dp_last.op = "call" /\ IsWriteCall(dp_last.steps))
    => /\ Len(dp_last.invoked) = 1
       /\ \E i \in 1..Len(dp_pool) : dp_last.invoked[1] = dp_pool[i]
       /\ dp_last.returned.kind = "raw"
       /\ dp_last.returned.value.v = dp_values[dp_last.invoked[1]].v
       /\ dp_last.returned.value.tag = dp_values[dp_last.invoked[1]].tag
       /\ Linear(dp_last.handle) =>
            dp_last.returned.value
            = Result([node |-> dp_last.invoked[1], path |-> dp_last.steps])

C7_Witness ==
    /\ dp_last.op = "call"
    /\ dp_last.steps = <<Step("attr", "eth"),
                         Step("attr", "send_raw_transaction"),
                         Step("call", "")>>
    /\ Len(dp_pool) = 3
    /\ Len(dp_last.invoked) = 1
    /\ dp_last.returned.kind = "raw"

\* C8 as claimed: for the call of a write method on a pool of more than one
\* member, the members the random choice is made among are the whole pool.
C8_AnyMemberCanBeInvoked ==
    (dp_last.op = "call" /\ IsWriteCall(dp_last.steps) /\ Len(dp_pool) > 1)
    => dp_last.candidates = {dp_pool[i] : i \in 1..Len(dp_pool)}


\* ================================================= node pool construction
\* the URLs the code has to try for the k-th primary, in order
Tried(k) == <<pl_primary[k]>> \o pl_log[k].before

Succeeded(k) ==
    LET attempts == pl_log[k].attempts IN attempts[Len(attempts)].ok

\* the URL the k-th member is connected to, when the k-th primary succeeded
UsedUrl(k) ==
    LET attempts == pl_log[k].attempts IN attempts[Len(attempts)].url

UsedFallback(k) == Succeeded(k) /\ Len(pl_log[k].attempts) > 1

\* C9: the primaries are handled in order; the member for primary k is the
\* connection to primary k if that connection succeeds, otherwise the
\* connection to the first fallback, in the order of the fallbacks not used
\* so far, that succeeds, and that fallback is removed from the list of
\* fallbacks so that no later primary can reuse it.
C9_SlotRule ==
    \A k \in 1..Len(pl_log) :
        LET entry == pl_log[k]
            attempts == entry.attempts
            last == Len(attempts)
        IN
        /\ entry.before = IF k = 1 THEN pl_fallback ELSE pl_log[k - 1].after
        /\ last <= Len(Tried(k))
        /\ \A i \in 1..last : attempts[i].url = Tried(k)[i]
        /\ \A i \in 1..(last - 1) : ~attempts[i].ok
        /\ ~Succeeded(k) => last = Len(Tried(k))
        /\ Succeeded(k) => pl_connections[k] = UsedUrl(k)
        /\ Succeeded(k) /\ last = 1 => entry.after = entry.before
        /\ UsedFallback(k) => entry.after = Remove(entry.before, UsedUrl(k))

\* the fallbacks no member before the k-th is connected to
RECURSIVE Unused(_)
Unused(k) ==
    IF k = 1 THEN pl_fallback
    ELSE IF UsedFallback(k - 1) THEN Remove(Unused(k - 1), UsedUrl(k - 1))
    ELSE Unused(k - 1)

\* neither the k-th primary nor any fallback unused at that point answers
NoneLive(k) ==
    /\ ~pl_log[k].live[1]
    /\ \A j \in 2..Len(Tried(k)) :
           Tried(k)[j] \in Range(Unused(k)) => ~pl_log[k].live[j]

\* C10: create_node_connections returns a pool with exactly len(primary)
\* members or fails with the generic error naming the attempted hosts; it
\* fails if and only if for some primary neither the primary nor any
\* fallback still unused at that point yields a live connection.
C10_Outcome ==
    /\ pl_pc = "returned" =>
        /\ Len(pl_connections) = Len(pl_primary)
        /\ \A k \in 1..Len(pl_log) : ~NoneLive(k)
    /\ pl_pc = "raised" =>
        /\ pl_error.kind = "error"
        /\ pl_error.error = GenericError
        /\ pl_error.domains =
               [i \in 1..Len(Tried(Len(pl_log))) |->
                   Tried(Len(pl_log))[i].netloc]
        /\ NoneLive(Len(pl_log))


\* no value occurs twice in list
Distinct(list) ==
    \A i, j \in DOMAIN list : list[i] = list[j] => i = j

\* every member is connected to a URL of the configuration
DrawnFromConfiguration ==
    Range(pl_connections) \subseteq Range(pl_primary) \cup Range(pl_fallback)

\* C11 as claimed: each member of a pool built from the primary list P and
\* the fallback list F corresponds to a distinct URL drawn from P and F.
C11_Original ==
    pl_pc = "returned" =>
        DrawnFromConfiguration /\ Distinct(pl_connections)

\* C11, amended: when no URL is listed twice in P followed by F, the members
\* of the pool, while it is built and when it is returned, correspond to
\* distinct URLs drawn from P and F.
C11_DistinctUrls ==
    /\ DrawnFromConfiguration
    /\ Distinct(pl_primary \o pl_fallback) => Distinct(pl_connections)

\* a pool of two members, the first of them connected to a fallback
C11_Witness ==
    /\ pl_pc = "returned"
    /\ Distinct(pl_primary \o pl_fallback)
    /\ Len(pl_connections) = 2
    /\ UsedFallback(1)

\* ========================================================== lifecycle task
Terminated == tk_state \in {"SUCCESS", "FAILURE"}

TerminalStatus(read) ==
    read.kind = "status" /\ read.status \in {CONFIRMED, REVERTED}

\* the task has returned the status read last with the id of the latest
\* accepted transaction
ReturnedLastStatus ==
    /\ tk_state = "SUCCESS"
    /\ TerminalStatus(tk_read.outcome)
    /\ tk_result = [kind |-> "value", status |-> tk_read.outcome.status,
                    transaction_id |-> tk_known]

\* C1 as claimed: for a status stream that eventually yields Confirmed or
\* Reverted the task terminates, returning that status together with the last
\* known transaction id. Every finite sequence of statuses read is the
\* beginning of such a stream, so a task that has ended has ended that way.
C1_Original == Terminated => ReturnedLastStatus

\* C1, amended: the task always terminates, after at most
\* MAX_TRANSACTION_RESUBMISSION_TASK_RETRIES + 1 activations; an activation
\* that reads Confirmed or Reverted ends it, returning that status together
\* with the last known transaction id; it fails only when no activation up
\* to the last one allowed has read Confirmed or Reverted.
C1_TaskTerminates ==
    /\ <>Terminated
    /\ [](tk_state = "SUCCESS" => ReturnedLastStatus)
    /\ [](tk_state = "FAILURE" =>
            /\ tk_read.activation
               = MAX_TRANSACTION_RESUBMISSION_TASK_RETRIES + 1
            /\ ~TerminalStatus(tk_read.outcome)
            /\ tk_result.kind = "error")
    /\ [][tk_read' # tk_read /\ TerminalStatus(tk_read'.outcome)
          => tk_state' = "SUCCESS"]_vars
    /\ [][tk_read' # tk_read /\ ~TerminalStatus(tk_read'.outcome)
          => tk_state' \in {"RETRY", "FAILURE"}]_vars

\* Confirmed is read after the transaction has been resubmitted
C1_Witness ==
    /\ ReturnedLastStatus
    /\ tk_result.status = CONFIRMED
    /\ tk_read.activation > 2
    /\ tk_result.transaction_id # tk_created.transaction_id

\* the worker has run the task at least once: tk_read describes the latest
\* activation
Activated == tk_read.activation > 0

ReadStatus(status) ==
    /\ Activated
    /\ tk_read.outcome.kind = "status"
    /\ tk_read.outcome.status = status

\* the retries the latest activation found used up
BudgetLeft == tk_read.retries < MAX_TRANSACTION_RESUBMISSION_TASK_RETRIES

\* the latest activation asked for a retry with these arguments after this
\* countdown, and the task waits for it (or has failed, the retries being
\* used up)
Scheduled(args, countdown) ==
    /\ IsSet(tk_read.retry)
    /\ Get(tk_read.retry).args = args
    /\ Get(tk_read.retry).countdown = countdown
    /\ BudgetLeft =>
        /\ tk_state = "RETRY"
        /\ tk_retries = tk_read.retries + 1
        /\ tk_args = args
        /\ tk_countdown = Some(countdown)
    /\ ~BudgetLeft => tk_state = "FAILURE"

\* C17: an activation that reads the status Confirmed or Reverted returns
\* that status with the transaction id it was given; it neither calls the
\* resubmission engine nor schedules a retry.
C17_TerminalStatusReturns ==
    Activated /\ TerminalStatus(tk_read.outcome) =>
        /\ tk_state = "SUCCESS"
        /\ tk_result = [kind |-> "value", status |-> tk_read.outcome.status,
                        transaction_id |-> tk_read.args.transaction_id]
        /\ tk_read.engine = <<>>
        /\ tk_read.retry = None
        /\ tk_retries = tk_read.retries
        /\ tk_countdown = None

\* Reverted is read by an activation that was given the id of a resubmitted
\* transaction
C17_Witness ==
    /\ ReadStatus(REVERTED)
    /\ tk_state = "SUCCESS"
    /\ tk_read.activation > 1
    /\ tk_read.args.transaction_id # tk_created.transaction_id
    /\ tk_result.transaction_id = tk_read.args.transaction_id

\* the latest activation has resubmitted the transaction
Resubmitted ==
    /\ ReadStatus(UNINCLUDED)
    /\ Len(tk_read.engine) = 1
    /\ tk_read.engine[1].response.kind = "response"

\* C18: an activation that reads Unincluded and resubmits successfully calls
\* the resubmission engine once, with the request it was given, and then
\* schedules a retry after average_block_time * blocks_until_resubmission
\* seconds whose arguments carry the id of the new transaction and the
\* request with min_adaptable_fee_per_gas replaced by the adaptable fee
\* achieved.
C18_ResubmissionSchedulesRetry ==
    /\ ReadStatus(UNINCLUDED) =>
        /\ Len(tk_read.engine) = 1
        /\ tk_read.engine[1].request = from_dict(tk_read.args.request_dict)
    /\ Resubmitted =>
        LET response == tk_read.engine[1].response
        IN  /\ Scheduled(
                 [blocks_until_resubmission |->
                      tk_read.args.blocks_until_resubmission,
                  transaction_id |-> response.transaction_id,
                  request_dict |->
                      [tk_read.args.request_dict
                          EXCEPT !.min_adaptable_fee_per_gas =
                                     response.adaptable_fee_per_gas]],
                 tk_config.average_block_time
                 * tk_read.args.blocks_until_resubmission)
            /\ Get(tk_read.retry).exc = None

\* a resubmission that had to raise the adaptable fee is followed by a retry
C18_Witness ==
    /\ Resubmitted
    /\ tk_state = "RETRY"
    /\ tk_args.transaction_id # tk_read.args.transaction_id
    /\ tk_args.request_dict.min_adaptable_fee_per_gas
       > tk_read.args.request_dict.min_adaptable_fee_per_gas
    /\ tk_countdown = Some(6)

\* C19: an activation that reads Unconfirmed schedules a retry after
\* average_block_time * required_transaction_confirmations seconds with the
\* transaction id and the request unchanged, and does not call the
\* resubmission engine.
C19_UnconfirmedSchedulesRetry ==
    ReadStatus(UNCONFIRMED) =>
        /\ Scheduled(tk_read.args,
                     tk_config.average_block_time
                     * tk_config.required_transaction_confirmations)
        /\ Get(tk_read.retry).exc = None
        /\ tk_read.engine = <<>>

\* Unconfirmed is read for a resubmitted transaction
C19_Witness ==
    /\ ReadStatus(UNCONFIRMED)
    /\ tk_state = "RETRY"
    /\ tk_args = tk_read.args
    /\ tk_args.transaction_id # tk_created.transaction_id
    /\ tk_countdown = Some(4)

\* the latest activation could not read the status
ReadFailed == Activated /\ tk_read.outcome.kind = "error"

\* the resubmission of the latest activation failed
ResubmissionFailed ==
    /\ ReadStatus(UNINCLUDED)
    /\ Len(tk_read.engine) = 1
    /\ tk_read.engine[1].response.kind = "error"

CeilingReached ==
    tk_read.engine[1].response.error = MaxTotalFeePerGasExceededError

C21_CeilingSchedulesRetry ==
    ResubmissionFailed /\ CeilingReached =>
        /\ Scheduled(tk_read.args,
                     tk_config.average_block_time
                     * tk_config.required_transaction_confirmations
                     * tk_read.retries)
        /\ Get(tk_read.retry).exc = Some(tk_read.engine[1].response)
        /\ tk_known = tk_read.args.transaction_id

\* the ceiling is reached by the third activation, which is retried after
\* twice the confirmation countdown
C21_Witness ==
    /\ ResubmissionFailed
    /\ CeilingReached
    /\ tk_read.retries = 2
    /\ tk_state = "RETRY"
    /\ tk_args = tk_read.args
    /\ tk_countdown = Some(8)

\* the error the latest activation ran into, if any
LastError ==
    IF ReadFailed THEN Some(tk_read.outcome)
    ELSE IF ResubmissionFailed THEN Some(tk_read.engine[1].response)
    ELSE None

\* C22 as claimed: the task is activated at most 1000 times after the first
\* activation, and when the retries are used up it ends in the failure state
\* with the last underlying error, an error of the status read or of the
\* resubmission.
C22_Original ==
    /\ tk_read.activation <= MAX_TRANSACTION_RESUBMISSION_TASK_RETRIES + 1
    /\ tk_state = "FAILURE" =>
        /\ tk_result.kind = "error"
        /\ tk_result.error # "MaxRetriesExceededError"

\* C22, amended: the task is activated at most 1000 times after the first
\* activation, whatever is read and whatever fails; it fails only in the
\* last activation allowed, with the error of that activation if it ran into
\* one, and with MaxRetriesExceededError if it read Unconfirmed or
\* resubmitted the transaction.
C22_RetryBudget ==
    /\ tk_read.activation <= MAX_TRANSACTION_RESUBMISSION_TASK_RETRIES + 1
    /\ tk_retries <= MAX_TRANSACTION_RESUBMISSION_TASK_RETRIES
    /\ tk_state = "FAILURE" =>
        /\ tk_read.activation = MAX_TRANSACTION_RESUBMISSION_TASK_RETRIES + 1
        /\ tk_result = IF IsSet(LastError) THEN Get(LastError)
                       ELSE Error("MaxRetriesExceededError")

\* the last activation allowed reads Unconfirmed
C22_Witness ==
    /\ tk_state = "FAILURE"
    /\ ReadStatus(UNCONFIRMED)
    /\ tk_read.activation = MAX_TRANSACTION_RESUBMISSION_TASK_RETRIES + 1
    /\ tk_result = Error("MaxRetriesExceededError")

\* ================================================ start, poll and registry
StartCalled == st_pc # "idle"

\* the request passes the checks of start_transaction_submission on an
\* adapter with Celery tasks enabled
StartValid ==
    /\ utilities.celery_tasks_enabled
    /\ st_request.blocks_until_resubmission > 0
    /\ st_request.adaptable_fee_increase_factor
       >= MIN_ADAPTABLE_FEE_INCREASE_FACTOR

EffectsOf(call) == {i \in DOMAIN st_effects : st_effects[i].call = call}

\* the answer of the engine called last
EngineAnswer ==
    st_effects[CHOOSE i \in DOMAIN st_effects :
                   /\ st_effects[i].call # "apply_async"
                   /\ \A j \in DOMAIN st_effects :
                        st_effects[j].call # "apply_async" => j <= i].response

\* the task start_transaction_submission has to register for the request
\* after the engines answered with response
TaskFor(task, response) ==
    /\ \E internal_transaction_id \in Uuids :
        task.task_id = uuid_str(internal_transaction_id)
    /\ task.args.blocks_until_resubmission
       = st_request.blocks_until_resubmission
    /\ task.args.transaction_id = response.transaction_id
    /\ from_dict(task.args.request_dict)
       = WithoutBlocks([st_request EXCEPT !.min_adaptable_fee_per_gas =
                                            response.adaptable_fee_per_gas])
    /\ task.countdown = utilities.average_block_time
                        * st_request.blocks_until_resubmission

\* C23: start_transaction_submission on a valid request calls the
\* submission engine exactly once, and the resubmission engine exactly once
\* if and only if that first submission was TransactionUnderpriced; with the
\* response of the engines it hands exactly one lifecycle task to Celery -
\* its task id a fresh internal transaction id, its arguments the accepted
\* transaction id and the request with min_adaptable_fee_per_gas set to the
\* fee achieved, its first run after average_block_time *
\* blocks_until_resubmission seconds - and returns that internal id once
\* the task is registered.
C23_StartRegistersOneTask ==
    StartCalled /\ StartValid =>
        /\ EffectsOf("submit_transaction") = {1}
        /\ st_effects[1].request = st_request
        /\ EffectsOf("resubmit_transaction")
           = IF /\ st_effects[1].response.kind = "error"
                /\ st_effects[1].response.error = TransactionUnderpricedError
             THEN {2} ELSE {}
        /\ \A i \in EffectsOf("resubmit_transaction") :
            st_effects[i].request = st_request
        /\ IF EngineAnswer.kind = "response"
           THEN /\ EffectsOf("apply_async") = {Len(st_effects)}
                /\ TaskFor(st_effects[Len(st_effects)], EngineAnswer)
                /\ st_pc = "returned" =>
                    /\ st_tasks = <<st_effects[Len(st_effects)]>>
                    /\ st_result.kind = "value"
                    /\ uuid_str(st_result.internal_transaction_id)
                       = st_tasks[1].task_id
                /\ st_pc = "raised" =>
                    /\ st_tasks = <<>>
                    /\ st_result.kind = "error"
                    /\ st_result.error = GenericError
           ELSE /\ EffectsOf("apply_async") = {}
                /\ st_tasks = <<>>
                /\ st_pc = "raised"
                /\ st_result = EngineAnswer

\* the first submission is underpriced, the resubmission raises the fee and
\* the task is registered with the fee achieved
C23_Witness ==
    /\ st_pc = "returned"
    /\ Len(st_effects) = 3
    /\ st_effects[2].call = "resubmit_transaction"
    /\ Len(st_tasks) = 1
    /\ st_tasks[1].args.request_dict.min_adaptable_fee_per_gas
       > st_request.min_adaptable_fee_per_gas
    /\ st_tasks[1].countdown = 6

\* the request start_transaction_submission was called with is rejected by
\* its checks
StartInvalid ==
    \/ ~utilities.celery_tasks_enabled
    \/ st_request.blocks_until_resubmission <= 0
    \/ st_request.adaptable_fee_increase_factor
       < MIN_ADAPTABLE_FEE_INCREASE_FACTOR

ResubmitCalled == rs_pc # "idle"

ResubmitInvalid ==
    \/ rs_input.adaptable_fee_increase_factor
       < MIN_ADAPTABLE_FEE_INCREASE_FACTOR
    \/ rs_input.min_adaptable_fee_per_gas < 0

\* C24: invalid lifecycle requests are rejected before any side effect:
\* start_transaction_submission raises the generic error when Celery tasks
\* are disabled, blocks_until_resubmission <= 0 or the factor is below
\* 1.101, and resubmit_transaction raises it when the factor is below 1.101
\* or min_adaptable_fee_per_gas < 0; in each case no transaction is
\* submitted and no task is registered.
C24_InvalidRequestsRejected ==
    /\ StartCalled /\ StartInvalid =>
        /\ st_pc = "raised"
        /\ st_result = Error(GenericError)
        /\ st_effects = <<>>
        /\ st_tasks = <<>>
        /\ rs_calls = <<>>
    /\ ResubmitCalled /\ ResubmitInvalid =>
        /\ rs_pc = "raised"
        /\ rs_result = Error(GenericError)
        /\ rs_calls = <<>>
        /\ st_tasks = <<>>

\* a start with blocks_until_resubmission = 0 on an adapter with Celery
\* tasks enabled is rejected
C24_Witness ==
    /\ StartCalled
    /\ utilities.celery_tasks_enabled
    /\ st_request.blocks_until_resubmission = 0
    /\ st_request.adaptable_fee_increase_factor
       >= MIN_ADAPTABLE_FEE_INCREASE_FACTOR
    /\ st_result = Error(GenericError)
    /\ st_effects = <<>>

\* the status of the submission has been asked for since the latest
\* activation
Polled == tk_poll # NoResult

\* C25: get_transaction_submission_status returns completed = false while
\* the lifecycle task has not finished; once the task has succeeded it
\* returns completed = true with the status and the transaction id the task
\* returned, so that completed is true only with the status Confirmed or
\* Reverted; when the task has failed it raises a generic error that carries
\* the internal transaction id.
C25_PollStatus ==
    Polled =>
        /\ tk_state \in {"PENDING", "RETRY"} =>
            tk_poll.response
            = [kind |-> "value", transaction_submission_completed |-> FALSE,
               transaction_status |-> None, transaction_id |-> None]
        /\ tk_state = "SUCCESS" =>
            tk_poll.response
            = [kind |-> "value", transaction_submission_completed |-> TRUE,
               transaction_status |->
                   Some(TransactionStatusNames[tk_result.status + 1]),
               transaction_id |-> Some(tk_result.transaction_id)]
        /\ tk_poll.response.kind = "value"
           /\ tk_poll.response.transaction_submission_completed =>
            tk_poll.response.transaction_status
            \in {Some("CONFIRMED"), Some("REVERTED")}
        /\ tk_state = "FAILURE" =>
            tk_poll.response
            = [kind |-> "error", error |-> GenericError,
               internal_transaction_id |-> tk_id]

\* the status is asked for after the task has returned Reverted for a
\* resubmitted transaction
C25_Witness ==
    /\ Polled
    /\ tk_state = "SUCCESS"
    /\ tk_poll.response.kind = "value"
    /\ tk_poll.response.transaction_status = Some("REVERTED")
    /\ tk_poll.response.transaction_id # Some(tk_created.transaction_id)

\* every member result is an int
AllIntegers == \A i \in DOMAIN dp_values : IsSet(dp_values[i])

IntegerResults == {Get(dp_values[i]) : i \in DOMAIN dp_values}

\* C26: get_minimum_result() and get_maximum_result() return the minimum
\* and the maximum of the results of the members when every result is an
\* integer, and raise NodeConnectionError when a result is not an integer.
C26_MinimumAndMaximum ==
    /\ dp_last.op = "get_minimum_result" =>
        IF AllIntegers
        THEN /\ dp_last.returned.kind = "value"
             /\ dp_last.returned.value \in IntegerResults
             /\ \A v \in IntegerResults : dp_last.returned.value <= v
        ELSE dp_last.returned = Error("NodeConnectionError")
    /\ dp_last.op = "get_maximum_result" =>
        IF AllIntegers
        THEN /\ dp_last.returned.kind = "value"
             /\ dp_last.returned.value \in IntegerResults
             /\ \A v \in IntegerResults : dp_last.returned.value >= v
        ELSE dp_last.returned = Error("NodeConnectionError")

\* the maximum of three results is the result of the second member
C26_Witness ==
    /\ dp_last.op = "get_maximum_result"
    /\ dp_values = <<Some(1), Some(2), Some(0)>>
    /\ dp_last.returned = [kind |-> "value", value |-> 2]

\* the calls of load_contract_abi before call j that loaded the contract ABI
\* of call j
LoadedBefore(j) ==
    {i \in 1..(j - 1) :
        /\ ab_log[i].contract_abi = ab_log[j].contract_abi
        /\ ab_log[i].returned.kind = "value"}

\* C27: after one successful load_contract_abi for a contract ABI, every
\* later load of that contract ABI on the adapter, whatever version is
\* asked for, returns an equal value without reading the file again, so
\* that at most one file is read successfully for each contract ABI; a load
\* that fails raises the generic error of the chain and caches nothing.
C27_AbiLoadedOnce ==
    \A j \in DOMAIN ab_log :
        /\ \A i \in LoadedBefore(j) :
            /\ ab_log[j].returned = ab_log[i].returned
            /\ ~ab_log[j].read
        /\ ab_log[j].returned.kind = "error" =>
            /\ ab_log[j].returned = Error(GenericError)
            /\ ab_log[j].loaded = ab_log[j].before
        /\ ab_log[j].returned.kind = "value" /\ LoadedBefore(j) = {} =>
            /\ ab_log[j].read
            /\ ab_log[j].returned.value
               = [file |-> ab_log[j].contract_abi,
                  package |-> ab_log[j].version]

\* a load fails, a load of the same contract ABI in another version
\* succeeds, and a third load in the version that failed returns what the
\* second returned
C27_Witness ==
    /\ Len(ab_log) = 3
    /\ ab_log[1].contract_abi = ab_log[2].contract_abi
    /\ ab_log[1].contract_abi = ab_log[3].contract_abi
    /\ ab_log[1].returned.kind = "error"
    /\ ab_log[2].returned.kind = "value"
    /\ ab_log[3].version = ab_log[1].version
    /\ ab_log[3].returned = ab_log[2].returned
    /\ ~ab_log[3].read

\* the initializations of the chain among the first n that gave an instance
Initializations(blockchain, n) ==
    {i \in 1..n : /\ fc_log[i].blockchain = blockchain
                  /\ fc_log[i].constructed}

LatestInitialization(blockchain, n) ==
    CHOOSE i \in Initializations(blockchain, n) :
        \A j \in Initializations(blockchain, n) : j <= i

\* what get_blockchain_utilities has to give for the chain after the first
\* n initializations
Registered(blockchain, n) ==
    IF Initializations(blockchain, n) = {}
    THEN Error("NotInitializedError")
    ELSE [kind |-> "value",
          value |-> [class |-> blockchain_utilities_classes[blockchain],
                     serial |->
                         fc_log[LatestInitialization(blockchain, n)].serial]]

EntryOf(blockchain) ==
    hl_health[CHOOSE i \in DOMAIN hl_health :
                  hl_health[i].blockchain = blockchain]

\* every registered chain has an adapter whose probe returns
ProbesReturn ==
    \A blockchain \in DOMAIN hl_nodes :
        /\ blockchain \in DOMAIN fc_utilities
        /\ fc_utilities[blockchain].class # "SolanaUtilities"

\* C29: check_blockchain_nodes_health returns one entry for every
\* registered chain, whatever the order in which the parallel probes of the
\* chains complete, with unhealthy_total the number of unhealthy nodes the
\* adapter reported and healthy_total = len(urls) - unhealthy_total; with an
\* empty registry it raises NotInitialized. (It returns when the probes of
\* all registered chains have completed; it raises when a registered chain
\* has no adapter or a probe raises.)
C29_HealthOfEveryChain ==
    /\ hl_pc = "returned" =>
        /\ hl_result.kind = "value"
        /\ DOMAIN hl_result.value = DOMAIN hl_nodes
        /\ \A blockchain \in DOMAIN hl_nodes :
            LET health == hl_result.value[blockchain] IN
            /\ health.unhealthy_nodes = EntryOf(blockchain).reported
            /\ health.unhealthy_total = Len(EntryOf(blockchain).reported)
            /\ health.healthy_total
               = Len(hl_nodes[blockchain]) - health.unhealthy_total
            /\ health.healthy_total >= 0
    /\ hl_pc # "idle" /\ DOMAIN hl_nodes = {} =>
        hl_pc = "raised" /\ hl_result = Error("NotInitializedError")
    /\ hl_pc # "idle" /\ DOMAIN hl_nodes # {} /\ ProbesReturn =>
        /\ hl_pc \in {"running", "returned"}
        /\ hl_pc = "returned" <=> hl_pending = {}
    /\ hl_pc = "raised" => DOMAIN hl_nodes = {} \/ ~ProbesReturn

\* the probe of the second chain completes before the probe of the first,
\* and one of the two nodes of a chain is unhealthy
C29_Witness ==
    /\ hl_pc = "returned"
    /\ Len(hl_health) = 2
    /\ hl_health[1].blockchain = "BNB_CHAIN"
    /\ hl_health[2].blockchain = "ETHEREUM"
    /\ hl_result.value["BNB_CHAIN"].healthy_total = 1
    /\ hl_result.value["BNB_CHAIN"].unhealthy_total = 1
    /\ hl_result.value["ETHEREUM"].unhealthy_total = 0

\* ------------------------------------------ ceiling between tip and full fee
\* a type-2 call whose ceiling is base fee + min adaptable fee, below
\* 2 * base fee + min adaptable fee
CeilingOfBasePlusTip ==
    /\ sm_pc # "idle"
    /\ utilities.type2
    /\ sm_request.min_adaptable_fee_per_gas >= 0
    /\ \A i \in DOMAIN sm_env.fees : IsSet(sm_env.fees[i])
    /\ LeastFee(sm_env.fees) > 0
    /\ sm_request.max_total_fee_per_gas
       = Some(LeastFee(sm_env.fees) + sm_request.min_adaptable_fee_per_gas)

\* nothing but the fees can stop the call before the transaction is sent
NothingElseFails ==
    /\ utilities.has_key
    /\ ~GenericFault(sm_request)
    /\ sm_env.created
    /\ sm_env.build = "built"

ReadCalled == rd_pc # "idle"

\* the members have given one receipt of the transaction asked for
ReceiptFound ==
    /\ ReadCalled
    /\ rd_env.created
    /\ Wrapper_call_get(rd_env.receipts).kind = "value"
    /\ Wrapper_call_get(rd_env.receipts).value.hash_matches

ReceiptOfRead == Wrapper_call_get(rd_env.receipts).value

\* the receipt has a block number and every member has given its current
\* block number
BlockNumbersRead ==
    /\ ReceiptFound
    /\ IsSet(ReceiptOfRead.blockNumber)
    /\ \A i \in DOMAIN rd_env.block_numbers : IsSet(rd_env.block_numbers[i])

\* (minimum current block number over the pool) - receipt block number
ConfirmationsRead ==
    Wrapper_get_minimum_result(rd_env.block_numbers).value
    - Get(ReceiptOfRead.blockNumber)

ReadGives(status) ==
    rd_pc = "returned" /\ rd_result = [kind |-> "status", status |-> status]

Unincluded ==
    /\ ReadCalled /\ rd_env.created
       /\ Wrapper_call_get(rd_env.receipts) = Error("TransactionNotFound")
       => ReadGives(UNINCLUDED)
    /\ ReceiptFound /\ ~IsSet(ReceiptOfRead.blockNumber)
       => ReadGives(UNINCLUDED)

\* C31 as claimed: no receipt found or a receipt without block number gives
\* Unincluded; otherwise, with confirmations = (minimum current block number
\* over the pool) - receipt block number, fewer confirmations than required
\* gives Unconfirmed whatever the status code of the receipt; with enough
\* confirmations a status code of 1 gives Confirmed and any other code gives
\* Reverted.
C31_Original ==
    /\ Unincluded
    /\ BlockNumbersRead =>
        IF ConfirmationsRead < rd_env.required_transaction_confirmations
        THEN ReadGives(UNCONFIRMED)
        ELSE IF ReceiptOfRead.status = 1 THEN ReadGives(CONFIRMED)
        ELSE ReadGives(REVERTED)

\* C31, amended: no receipt found or a receipt without block number gives
\* Unincluded; otherwise, with confirmations = (minimum current block number
\* over the pool) - receipt block number, a negative number of confirmations
\* raises the generic error of the chain; fewer confirmations than required,
\* but not fewer than 0, give Unconfirmed whatever the status code of the
\* receipt; with enough confirmations a status code of 1 gives Confirmed and
\* any other code gives Reverted. A status is given in these cases only.
C31_ReadStatus ==
    /\ Unincluded
    /\ BlockNumbersRead =>
        IF ConfirmationsRead < 0
        THEN rd_pc = "raised" /\ rd_result = Error(GenericError)
        ELSE IF ConfirmationsRead < rd_env.required_transaction_confirmations
        THEN ReadGives(UNCONFIRMED)
        ELSE IF ReceiptOfRead.status = 1 THEN ReadGives(CONFIRMED)
        ELSE ReadGives(REVERTED)
    /\ rd_pc = "returned" =>
        \/ Wrapper_call_get(rd_env.receipts) = Error("TransactionNotFound")
        \/ ReceiptFound /\ ~IsSet(ReceiptOfRead.blockNumber)
        \/ BlockNumbersRead /\ ConfirmationsRead >= 0

\* a pool of two members whose block numbers differ: with the lower one the
\* failed transaction has one confirmation of the two required
C31_Witness ==
    /\ BlockNumbersRead
    /\ Len(rd_env.block_numbers) = 2
    /\ rd_env.block_numbers[1] = Some(2)
    /\ rd_env.block_numbers[2] = Some(1)
    /\ ReceiptOfRead.blockNumber = Some(0)
    /\ ReceiptOfRead.status = 0
    /\ rd_env.required_transaction_confirmations = 2
    /\ ReadGives(UNCONFIRMED)

\* a transaction of the request has been accepted, and Celery has not taken
\* the task handed to it
TaskCreationFailed ==
    /\ StartCalled
    /\ StartValid
    /\ EngineAnswer.kind = "response"
    /\ EffectsOf("apply_async") # {}
    /\ st_tasks = <<>>

\* C32: if registering the lifecycle task fails after the initial
\* transaction was accepted, start_transaction_submission raises the generic
\* error of the chain carrying the request and the id of the submitted
\* transaction, and returns no internal transaction id.
C32_TaskCreationError ==
    TaskCreationFailed =>
        /\ st_pc = "raised"
        /\ st_result.kind = "error"
        /\ st_result.error = GenericError
        /\ "request" \in DOMAIN st_result
        /\ st_result.request = st_request
        /\ "transaction_id" \in DOMAIN st_result
        /\ st_result.transaction_id = EngineAnswer.transaction_id
        /\ "internal_transaction_id" \notin DOMAIN st_result

\* the first submission is underpriced, the resubmission is accepted with a
\* higher fee, and the task is not taken: the error carries the id of the
\* resubmitted transaction and the request as it was given
C32_Witness ==
    /\ TaskCreationFailed
    /\ st_pc = "raised"
    /\ Len(st_effects) = 3
    /\ st_effects[2].call = "resubmit_transaction"
    /\ st_result.transaction_id = st_effects[2].response.transaction_id
    /\ st_result.request.min_adaptable_fee_per_gas
       < st_effects[2].response.adaptable_fee_per_gas

\* the dependent task has been activated, and dt_read tells of its latest
\* activation
DependentActivated == dt_read.activation > 0

\* in its latest activation the task found the lifecycle of the prerequisite
\* completed with this status
PrerequisiteRead(transaction_status) ==
    /\ DependentActivated
    /\ dt_read.status.kind = "value"
    /\ dt_read.status.transaction_submission_completed
    /\ dt_read.status.transaction_status = Some(transaction_status)

\* in its latest activation the task read at least blocks_to_wait
\* confirmations of a confirmed prerequisite
EnoughConfirmations ==
    /\ PrerequisiteRead("CONFIRMED")
    /\ IsSet(dt_read.confirmations)
    /\ Get(dt_read.confirmations).kind = "value"
    /\ Get(dt_read.confirmations).number_of_confirmations
       >= dt_args.blocks_to_wait

\* the latest activation called self.retry(countdown=average_block_time)
DependentRetried == dt_read.retry = Some(dt_args.average_block_time)

\* at most one follower submission, started in the latest activation, which
\* read a confirmed prerequisite with enough confirmations; a reverted
\* prerequisite ends the task with False and without submission
FollowerStartedOnce ==
    /\ Len(dt_started) <= 1
    /\ dt_started # <<>> =>
        /\ dt_read.started
        /\ dt_state \in {"SUCCESS", "FAILURE"}
        /\ dt_started[1].request = from_dict(dt_args.request)
    /\ DependentActivated /\ dt_read.started =>
        EnoughConfirmations /\ Len(dt_started) = 1
    /\ EnoughConfirmations => dt_read.started
    /\ PrerequisiteRead("REVERTED") =>
        /\ dt_state = "SUCCESS"
        /\ dt_result = [kind |-> "value", value |-> FALSE]
        /\ dt_started = <<>>
        /\ dt_read.retry = None

RECURSIVE AloneAfter(_, _)
AloneAfter(steps, k) ==
    IF k = 0
    THEN [is_transaction_function |-> FALSE,
          objects |-> [i \in 1..Len(dp_pool) |-> RootObject(dp_pool[i])]]
    ELSE LET before == AloneAfter(steps, k - 1) IN
         IF steps[k].op = "attr"
         THEN Wrapper(before.objects, steps[k].arg)
         ELSE [before EXCEPT !.objects =
                  [i \in 1..Len(before.objects) |->
                      Apply(before.objects[i], steps[k])]]

Alone(steps) == AloneAfter(steps, Len(steps))

\* the proxy the latest step returned
ProxyReturned ==
    /\ dp_last.op \in {"getattr", "getitem", "call"}
    /\ dp_last.returned.kind = "proxy"

\* C34 as claimed: two chains on the same pool, including two chains
\* continued from the same proxy object, interleaved in any order give each
\* the result it would give alone: the proxy a step returns has the members
\* its chain gives alone, and get() gives what it gives on them.
C34_Original ==
    /\ ProxyReturned =>
        dp_wrappers[dp_last.returned.wrapper] = Alone(dp_last.steps)
    /\ dp_last.op = "get" =>
        dp_last.returned = Wrapper_get(Alone(dp_last.steps).objects)

\* no step changes the connection list of the pool; an attribute step makes
\* a new proxy and changes no other; an index step and the call of a method
\* that sends no transaction change the members of the proxy they are made
\* on, which they return, and of no other; get() and the call of a write
\* method change no proxy
StepFrame ==
    /\ dp_pool' = dp_pool
    /\ Len(dp_wrappers') >= Len(dp_wrappers)
    /\ \A w \in 1..Len(dp_wrappers) :
        dp_wrappers'[w] # dp_wrappers[w] =>
            /\ dp_last'.op \in {"getitem", "call"}
            /\ dp_last'.returned = [kind |-> "proxy", wrapper |-> w]
            /\ dp_handles[dp_last'.handle].wrapper = w
    /\ Len(dp_wrappers') > Len(dp_wrappers) =>
        /\ dp_last'.op = "getattr"
        /\ dp_last'.returned
           = [kind |-> "proxy", wrapper |-> Len(dp_wrappers')]

\* every chain written as one expression, on whose proxy no other step has
\* been made, has the members it gives alone
LinearChainsAlone ==
    \A h \in 1..Len(dp_handles) :
        Linear(h) => dp_wrappers[dp_handles[h].wrapper] = Alone(dp_handles[h].steps)

\* C34, amended: call chains that are each written as one expression
\* starting at the pool or at an attribute step carry their own members
\* list, so interleaved in any order each gives the result it would give
\* alone; no step changes the connection list of the pool; an attribute step
\* returns a new proxy and changes no other; an index step or the call of a
\* method that is no write method replaces the members of the proxy it is
\* made on in place and returns that same proxy, so that two chains
\* continued from one proxy by such steps are not independent.
C34_ChainsIndependent == []LinearChainsAlone /\ [][StepFrame]_vars

\* two chains on a pool of two members, interleaved: the first is continued
\* by an index step after the second was begun
C34_Witness ==
    /\ Len(dp_pool) = 2
    /\ Len(dp_handles) = 3
    /\ dp_handles[1].wrapper = 1
    /\ dp_handles[2].wrapper = 2
    /\ dp_handles[3].wrapper = 1
    /\ dp_handles[3].steps[2].op = "index"
    /\ Linear(2)
    /\ Linear(3)
    /\ dp_wrappers[1] = Alone(dp_handles[3].steps)
    /\ dp_wrappers[2] = Alone(dp_handles[2].steps)

\* --------------------------------------------- configured lists of the pool
\* a step leaves the configured primary and fallback URLs as they are, and a
\* step that begins a call gives it the full fallback list
ConfiguredListsKept ==
    /\ pl_primary' = pl_primary
    /\ pl_fallback' = pl_fallback
    /\ pl_pc # "running" /\ pl_pc' = "running" =>
        pl_fallback_nodes' = pl_fallback

\* C35: create_node_connections leaves the configured primary and fallback
\* URL lists of the adapter unchanged (fallbacks are consumed from a scratch
\* copy only), so every call starts again with the full fallback list.
C35_ConfiguredListsUnchanged == [][ConfiguredListsKept]_vars

\* a call has returned a pool in which both primaries are replaced by
\* fallbacks: the scratch list is used up, the configured list is not
C35_Witness ==
    /\ pl_pc = "returned"
    /\ Len(pl_primary) = 2
    /\ Len(pl_fallback) = 2
    /\ pl_fallback_nodes = <<>>
    /\ pl_connections = pl_fallback

\* --------------------------------------------------- claims: the lifecycle
\* a transaction submitted during the lifecycle is confirmed on chain: it is
\* included, executed with success, under the required confirmations
SubmittedTransactionConfirmed ==
    /\ IsSet(ch_block)
    /\ Get(ch_block).status = 1
    /\ Get(ch_block).confirmations
       >= tk_config.required_transaction_confirmations
    /\ \E i \in DOMAIN ch_submitted :
        ch_submitted[i].transaction_id = Get(ch_block).transaction_id

\* what get_transaction_submission_status reports for the task
PollOfLifecycle == get_transaction_submission_status(tk_id, tk_state, tk_result)

\* C36: if any transaction submitted during one lifecycle becomes confirmed
\* on chain, the lifecycle task eventually succeeds and the poll reports
\* completed with the status Confirmed and the id of that transaction. The
\* states SUCCESS and FAILURE of a task are final, so a task that has ended
\* while a submitted transaction is confirmed must have ended so.
C36_Original ==
    (SubmittedTransactionConfirmed /\ tk_state \in {"SUCCESS", "FAILURE"})
    => /\ tk_state = "SUCCESS"
       /\ PollOfLifecycle.kind = "value"
       /\ PollOfLifecycle.transaction_submission_completed
       /\ PollOfLifecycle.transaction_status = Some("CONFIRMED")
       /\ PollOfLifecycle.transaction_id
          = Some(Get(ch_block).transaction_id)

\* the min adaptable fee per gas of the request the task carries, before and
\* after its latest activation
FeeOfTask == tk_args.request_dict.min_adaptable_fee_per_gas
FeeOfTaskBefore == tk_read.args.request_dict.min_adaptable_fee_per_gas

\* the latest activation resubmitted the transaction and the nodes accepted
ResubmittedWithSuccess ==
    /\ tk_read.activation > 0
    /\ tk_read.engine # <<>>
    /\ tk_read.engine[1].response.kind = "response"

\* C37: across the activations of one lifecycle task the min adaptable fee
\* per gas of the task's request never decreases, is strictly larger after
\* every successful resubmission, is unchanged by every other activation,
\* and never exceeds the max total fee per gas when that is set.
C37_FeeOfTaskGrows ==
    /\ IsSet(tk_args.request_dict.max_total_fee_per_gas)
       => FeeOfTask <= Get(tk_args.request_dict.max_total_fee_per_gas)
    /\ tk_read.activation > 0
       => /\ FeeOfTask >= FeeOfTaskBefore
          /\ ResubmittedWithSuccess => FeeOfTask > FeeOfTaskBefore
          /\ ~ResubmittedWithSuccess => FeeOfTask = FeeOfTaskBefore

\* an activation has resubmitted on a legacy adapter whose gas price is
\* above the increased fee
C37_Witness ==
    /\ ResubmittedWithSuccess
    /\ ~utilities.type2
    /\ FeeOfTask
       > bumped_min_adaptable_fee_per_gas(from_dict(tk_read.args.request_dict))
    /\ FeeOfTask > FeeOfTaskBefore
    /\ FeeOfTask = Get(tk_args.request_dict.max_total_fee_per_gas)

\* the fields of a request other than its min adaptable fee per gas
FieldsKept ==
    {"nonce", "contract_address", "function_selector", "function_args",
     "gas", "amount", "max_total_fee_per_gas",
     "adaptable_fee_increase_factor", "versioned_contract_abi"}

\* C38: all transactions submitted within one lifecycle, the initial
\* submission, every iteration of the resubmission loop and every
\* resubmission of a later activation, across to_dict and from_dict, carry
\* the same nonce, contract address, function selector, arguments, gas,
\* amount, ceiling and increase factor (and contract ABI); only the min
\* adaptable fee per gas differs between them.
C38_RequestKept ==
    /\ \A a, b \in ch_attempts : \A field \in FieldsKept : a[field] = b[field]
    /\ \A i, j \in DOMAIN ch_submitted :
        /\ ch_submitted[i].request \in ch_attempts
        /\ ch_submitted[i].transaction_id.nonce
           = ch_submitted[j].transaction_id.nonce
        /\ ch_submitted[i].transaction_id.gas
           = ch_submitted[j].transaction_id.gas
        /\ ch_submitted[i].transaction_id.value
           = ch_submitted[j].transaction_id.value

\* a second activation has resubmitted after the first one has, and one
\* iteration of a resubmission loop was answered as underpriced
C38_Witness ==
    /\ tk_read.activation >= 2
    /\ Len(ch_submitted) >= 2
    /\ Cardinality(ch_attempts) >= 3
    /\ \E a \in ch_attempts :
        \A i \in DOMAIN ch_submitted : ch_submitted[i].request # a
    /\ \E a, b \in ch_attempts :
        a.min_adaptable_fee_per_gas # b.min_adaptable_fee_per_gas

\* the latest activation has scheduled a retry
RetryScheduled == tk_state = "RETRY" /\ tk_read.activation > 0

\* the retry follows a MaxTotalFeePerGasExceededError of the resubmission
AfterCeiling ==
    /\ IsSet(tk_read.retry)
    /\ Get(tk_read.retry).exc = Some(Error(MaxTotalFeePerGasExceededError))

\* the retry follows the status Unconfirmed
AfterUnconfirmed ==
    /\ tk_read.outcome.kind = "status"
    /\ tk_read.outcome.status = UNCONFIRMED

\* C39 as stated: every retry scheduled by the lifecycle task has a strictly
\* positive delay, for every valid adapter configuration and every retry
\* count.
C39_Original == RetryScheduled => Get(tk_countdown) > 0

\* C39, amended: every retry has a delay of 0 or more. The retries after a
\* read error, a resubmission or another error of the resubmission have the
\* positive delay average_block_time * blocks_until_resubmission; the retry
\* after Unconfirmed has a positive delay exactly when the required
\* confirmations are 1 or more; the retry after a
\* MaxTotalFeePerGasExceededError has the delay average_block_time *
\* required confirmations * retries, positive exactly when the required
\* confirmations and the retries of the activation are 1 or more.
C39_RetryDelays ==
    RetryScheduled
    => /\ IsSet(tk_countdown)
       /\ Get(tk_countdown) >= 0
       /\ IF AfterCeiling
          THEN /\ Get(tk_countdown)
                  = tk_config.average_block_time
                    * tk_config.required_transaction_confirmations
                    * tk_read.retries
               /\ Get(tk_countdown) > 0
                  <=> /\ tk_config.required_transaction_confirmations >= 1
                      /\ tk_read.retries >= 1
          ELSE IF AfterUnconfirmed
          THEN Get(tk_countdown) > 0
               <=> tk_config.required_transaction_confirmations >= 1
          ELSE /\ Get(tk_countdown)
                  = tk_config.average_block_time
                    * tk_read.args.blocks_until_resubmission
               /\ Get(tk_countdown) > 0

\* the first activation has hit the ceiling on an adapter that requires
\* confirmations: the task is activated again at once
C39_Witness ==
    /\ RetryScheduled
    /\ AfterCeiling
    /\ tk_read.retries = 0
    /\ tk_config.required_transaction_confirmations >= 1
    /\ tk_countdown = Some(0)

\* --------------------------------------- claims: termination of the loop
\* resubmit_transaction has returned a response or raised
ResubmissionEnded == rs_pc \in {"returned", "raised"}

\* every submission of the call was answered as underpriced
AllUnderpriced ==
    \A i \in DOMAIN rs_answers :
        rs_answers[i] = Error(TransactionUnderpricedError)

\* with the ceiling c there are at most c submissions: the fees handed to
\* submit_transaction are whole numbers from 1 to c, each above the one
\* before
AtMostCeilingSubmissions ==
    rs_pc # "idle" => Len(rs_calls) <= Get(rs_input.max_total_fee_per_gas)

\* C40: when max_total_fee_per_gas is set, resubmit_transaction ends after
\* finitely many submissions, whatever the submissions are answered with: it
\* returns a response or raises, also when every submission is answered with
\* TransactionUnderpriced.
C40_ResubmissionTerminates ==
    /\ []AtMostCeilingSubmissions
    /\ (rs_pc = "loop") ~> ResubmissionEnded

\* the call has ended on the ceiling after as many submissions as the
\* ceiling allows, every one of them answered as underpriced
C40_Witness ==
    /\ rs_pc = "raised"
    /\ rs_result = Error(MaxTotalFeePerGasExceededError)
    /\ Len(rs_calls) = MaxCeiling
    /\ Get(rs_input.max_total_fee_per_gas) = MaxCeiling
    /\ AllUnderpriced

====
